---- MODULE Spec2Model ----
(***************************************************************************)
(* Flight-delay dashboards of linachos/Data-Visualization: the data        *)
(* pipeline load -> join -> enrich -> filter -> aggregate, as implemented  *)
(* by Utilisations/data_loader.py and by the Streamlit scripts app.py,     *)
(* app2.py and app3.py.                                                    *)
(*                                                                         *)
(* A table (DataFrame) is a sequence of rows, a row a record of cells.     *)
(* A cell that pandas may leave missing is a tuple: <<>> is NaN/None and   *)
(* <<v>> the value v, so that comparisons with a missing cell are total.   *)
(***************************************************************************)
EXTENDS Integers, Sequences, FiniteSets, TLC

VARIABLES
    variant,          \* which script runs: "lib" (data_loader.py), "app", "app2", "app3"
    file,             \* data/flight_data.xlsx as found on disk
    pc,               \* position of the render pass in the script
    flights,          \* the four tables the loader handed to the caller,
    airports,         \*   each None or <<table>>
    airlines,
    aircrafts,
    df,               \* enriched table of data_loader.py and app.py (None or <<table>>)
    departures,       \* enriched departures of app2.py / app3.py (None or <<table>>)
    arrivals,         \* enriched arrivals of app2.py / app3.py (None or <<table>>)
    error_shown,      \* st.error(...) was rendered in this pass
    raised,           \* the uncaught exception that ended the pass, or None
    delay_type,       \* app2.py / app3.py radio: "Departure Delays" or "Arrival Delays"
    selected_airports,  \* accepted airport codes (filter_data's airports argument)
    selected_airlines,  \* accepted airline names (filter_data's airlines argument)
    date_range,       \* <<start, end>>; <<>> is filter_data's date_range=None
    filtered_df_all,  \* app.py: df[mask] (None or <<table>>)
    filtered_df,      \* the subset the KPIs are computed from (None or <<table>>)
    kpis,             \* the KPI values of this pass (None or <<record>>)
    zero_divisions,   \* KPIs whose computation divided by a zero row count
    filtered_id,      \* which object the filtered table is: "none" before the filter
                      \*   ran, "enriched" (the enriched table itself) or "filtered"
    cum_data,         \* app.py: the cumulative-delay records (None or <<sequence>>)
    airport_delays,   \* mean delay by airport or airline (None or <<series>>)
    time_series,      \* mean delay by date, week or month (None or <<series>>)
    dow_delays,       \* mean delay by day of week (None or <<series>>)
    heatmap_pivot,    \* create_heatmap: mean delay by day and hour (None or <<rows>>)
    chart_by,         \* the by argument of create_delay_bar_chart (default 'origin')
    chart_freq,       \* the freq argument of create_time_series (default 'D')
    cache,            \* st.cache_data: per cached function, None or <<[args, value]>>
    reads,            \* per sheet, how often it was read from the source in this session
    enrichments,      \* how often the joins and derived columns were computed
    passes,           \* script runs of this session so far, the current one included
    file_changed,     \* the source file was changed during this session
    previous,         \* the source file and the enriched tables of the previous
                      \*   pass (None or <<record>>)
    session_state,    \* st.session_state: per key, None (absent) or <<value>>
    widgets,          \* the keyed multiselects built with a default: per key, None
                      \*   or <<[options, default, value]>> as of the last run
    interaction       \* what the user did to start this run: [kind, value]

\* what the filter and aggregation steps of a pass write
passvars == <<delay_type, selected_airports, selected_airlines, date_range,
              filtered_df_all, filtered_df, kpis, zero_divisions>>

passvars_but_kpis == <<delay_type, selected_airports, selected_airlines, date_range,
                       filtered_df_all, filtered_df, zero_divisions>>

\* what the grouped summaries of a pass write
chartvars == <<cum_data, airport_delays, time_series, dow_delays, heatmap_pivot,
               chart_by, chart_freq>>

\* what outlives a script run: the cache and the session's history
sessvars == <<cache, reads, enrichments, passes, file_changed, previous>>

\* the state of the sidebar's widgets, which outlives a script run
uivars == <<session_state, widgets, interaction>>

vars == <<variant, file, pc, flights, airports, airlines, aircrafts, df,
          departures, arrivals, error_shown, raised, passvars, filtered_id,
          chartvars, sessvars, uivars>>

-----------------------------------------------------------------------------
(* Bounds of the model *)

\* rows of the flights sheet
MaxRows == 2
\* script runs (interactions) of one session
MaxPasses == 2
\* rows of co2_mm_mlo.csv
MaxMonths == 2
\* last year of co2_mm_mlo.csv
MaxYear == 2050
\* interactions with the sidebar in one session
MaxInteractions == 3
\* last day a caller of filter_data may name in a date range
MaxDate == 3
\* largest departure delay (minutes) drawn for a flight
MaxDelay == 62
\* largest early departure (minutes before schedule) drawn for a flight
MaxEarly == 2

-----------------------------------------------------------------------------
(* Cells and tables *)

NaN == <<>>
None == <<>>
Some(v) == <<v>>
isna(c) == c = <<>>
notna(c) == c # <<>>

\* Series comparisons: a comparison with NaN is False, never NaN
gt(c, k) == notna(c) /\ c[1] > k
ge(c, k) == notna(c) /\ c[1] >= k
le(c, k) == notna(c) /\ c[1] <= k

Range(s) == {s[i] : i \in 1..Len(s)}

RECURSIVE Concat(_)
Concat(ss) ==
    IF ss = <<>> THEN <<>> ELSE Head(ss) \o Concat(Tail(ss))

Columns(t) == IF t = <<>> THEN {} ELSE DOMAIN t[1]

\* dates are day numbers; day 1 is a Sunday, the 1st of January
day_order ==
    <<"Monday", "Tuesday", "Wednesday", "Thursday", "Friday", "Saturday", "Sunday">>

\* Series.dt.day_name()
day_name(d) == day_order[((d + 5) % 7) + 1]

\* Series.dt.strftime('%B')
month_name(d) == IF d <= 31 THEN "January" ELSE "February"

\* Series.dt.to_period('W').dt.start_time: the Monday on or before the day
week_start(d) == d - ((d + 5) % 7)

\* extended reals for bin edges: -inf, a number, +inf
NegInf == [inf |-> -1, v |-> 0]
PosInf == [inf |-> 1, v |-> 0]
Fin(n) == [inf |-> 0, v |-> n]
ExtLt(a, b) == a.inf < b.inf \/ (a.inf = 0 /\ b.inf = 0 /\ a.v < b.v)
ExtLe(a, b) == a = b \/ ExtLt(a, b)

\* pd.cut(x, bins, labels) with right=False: intervals closed on the left
pd_cut_left_closed(c, bins, labels) ==
    IF isna(c) THEN NaN
    ELSE LET hit == {i \in 1..(Len(bins) - 1) :
                        ExtLe(bins[i], Fin(c[1])) /\ ExtLt(Fin(c[1]), bins[i + 1])}
         IN  IF hit = {} THEN NaN ELSE Some(labels[CHOOSE i \in hit : TRUE])

\* pd.cut(x, bins, labels): intervals (bins[i], bins[i+1]], NaN outside and for NaN
pd_cut(c, bins, labels) ==
    IF isna(c) THEN NaN
    ELSE LET hit == {i \in 1..(Len(bins) - 1) :
                        ExtLt(bins[i], Fin(c[1])) /\ ExtLe(Fin(c[1]), bins[i + 1])}
         IN  IF hit = {} THEN NaN ELSE Some(labels[CHOOSE i \in hit : TRUE])

delay_bins == <<NegInf, Fin(0), Fin(15), Fin(60), PosInf>>
delay_labels ==
    <<"On Time/Early", "Minor (1-15 min)", "Moderate (16-60 min)", "Major (>60 min)">>

\* data_loader.py time_of_day: bins=[-1, 6, 12, 18, 24] and its labels
time_bins == <<Fin(-1), Fin(6), Fin(12), Fin(18), Fin(24)>>
time_labels ==
    <<"Night (12am-6am)", "Morning (6am-12pm)", "Afternoon (12pm-6pm)",
      "Evening (6pm-12am)">>

\* column names pandas gives an overlapping column under a suffix
suffixed(c, s) ==
    IF s = "" THEN c
    ELSE CASE c = "airport_code" /\ s = "_dest" -> "airport_code_dest"
           [] c = "airport_code" /\ s = "_x" -> "airport_code_x"
           [] c = "airport_code" /\ s = "_y" -> "airport_code_y"

\* one row of a merge: the left row, the right row's columns beside it (the
\* right key dropped when it has the left key's name, overlapping columns
\* suffixed); r = None fills the right columns with NaN
merged_row(l, r, rcols, left_on, right_on, suffixes) ==
    LET keep == IF left_on = right_on THEN rcols \ {right_on} ELSE rcols
        both == keep \cap DOMAIN l
        lname(c) == IF c \in both THEN suffixed(c, suffixes[1]) ELSE c
        rname(c) == IF c \in both THEN suffixed(c, suffixes[2]) ELSE c
        lrow == [n \in {lname(c) : c \in DOMAIN l} |->
                    l[CHOOSE c \in DOMAIN l : lname(c) = n]]
        rrow == [n \in {rname(c) : c \in keep} |->
                    IF r = None THEN NaN
                    ELSE Some(r[1][CHOOSE c \in keep : rname(c) = n])]
    IN  lrow @@ rrow

\* df.merge(right, how='inner'): unmatched left rows are dropped
merge_inner(left, right, left_on, right_on, suffixes) ==
    Concat([i \in 1..Len(left) |->
        LET l == left[i]
            m == SelectSeq(right, LAMBDA r : r[right_on] = l[left_on])
        IN  [j \in 1..Len(m) |->
                merged_row(l, Some(m[j]), Columns(right), left_on, right_on, suffixes)]])

\* df.merge(right, left_on=, right_on=, how='left', suffixes=): every left row,
\* in order, once per matching right row, or once with NaN when none matches
merge(left, right, left_on, right_on, suffixes) ==
    Concat([i \in 1..Len(left) |->
        LET l == left[i]
            m == SelectSeq(right, LAMBDA r : r[right_on] = l[left_on])
        IN  IF m = <<>>
            THEN <<merged_row(l, None, Columns(right), left_on, right_on, suffixes)>>
            ELSE [j \in 1..Len(m) |->
                    merged_row(l, Some(m[j]), Columns(right), left_on, right_on, suffixes)]])

\* df.rename(columns=names): names is a function from old to new names
rename_row(r, names) ==
    LET new(c) == IF c \in DOMAIN names THEN names[c] ELSE c
    IN  [n \in {new(c) : c \in DOMAIN r} |-> r[CHOOSE c \in DOMAIN r : new(c) = n]]

rename(t, names) == [i \in 1..Len(t) |-> rename_row(t[i], names)]

\* df[cols]: the projection of a table on some columns
project(t, cols) == [i \in 1..Len(t) |-> [c \in cols |-> t[i][c]]]

origin_names ==
    ("name" :> "origin_airport_name") @@ ("latitude" :> "origin_lat")
        @@ ("longitude" :> "origin_lon")
destination_names ==
    ("name" :> "destination_airport_name") @@ ("latitude" :> "destination_lat")
        @@ ("longitude" :> "destination_lon")

ny_nj_airports == {"EWR", "JFK", "LGA", "SWF"}

-----------------------------------------------------------------------------
(* The source file and the sheets read from it *)

Sheets == <<"flights", "airports", "airlines", "aircrafts">>

\* pd.read_excel(path, sheet_name=sheet): the sheet's table, or None when the
\* read raises (file missing, sheet missing or unreadable)
read_excel(f, sheet) ==
    IF ~f.exists \/ sheet \in f.unreadable
    THEN None
    ELSE Some(f[sheet])

\* a loader that keeps the sheets it could read and passes None for the others
load_sheets_partial(f) ==
    [s \in Range(Sheets) |-> read_excel(f, s)]

\* the four reads in a row: the first one that raises ends them all, and the
\* except branch (or the propagating exception) leaves no table behind
load_sheets(f) ==
    IF \E i \in 1..Len(Sheets) : read_excel(f, Sheets[i]) = None
    THEN [s \in Range(Sheets) |-> None]
    ELSE [s \in Range(Sheets) |-> read_excel(f, s)]

\* the reads raised: the statements after them in the function did not run
reads_raised(t) == \E s \in DOMAIN t : t[s] = None

\* a merge or a column access raises KeyError when an expected column is absent
schema_ok(f) == f.has_columns

\* the sheets the four reads got from the source: those before the first read
\* that raises
sheets_read(f) ==
    {Sheets[i] : i \in {k \in 1..Len(Sheets) :
                            \A j \in 1..k : read_excel(f, Sheets[j]) # None}}

\* the read counts after the four reads were run on f
count_reads(n, f) ==
    [s \in DOMAIN n |-> IF s \in sheets_read(f) THEN n[s] + 1 ELSE n[s]]

-----------------------------------------------------------------------------
(* st.cache_data *)

\* a function whose results are not kept: no call finds an entry
cached_never(c, fn, args) == None

\* the entry of function fn for these arguments (None: the body must run)
cached(c, fn, args) ==
    IF c[fn] # None /\ c[fn][1].args = args THEN Some(c[fn][1].value) ELSE None

\* the cache after fn returned value for these arguments (a call that raises
\* stores nothing)
store(c, fn, args, value) == [c EXCEPT ![fn] = Some([args |-> args, value |-> value])]

\* load_data takes no argument
no_args == <<>>

-----------------------------------------------------------------------------
(* Enrichment: the joins and the derived columns of each script *)

\* data_loader.py with the on-time threshold of app2.py (delay <= 0)
lib_derived_on_time_0(r) ==
    [month_name |-> month_name(r.scheduled_departure.date),
     day_of_week |-> day_name(r.scheduled_departure.date),
     date |-> r.scheduled_departure.date,
     hour |-> r.scheduled_departure.hour,
     delay_category |-> pd_cut(r.departure_delay, delay_bins, delay_labels),
     is_delayed |-> Some(gt(r.departure_delay, 0)),
     on_time |-> Some(le(r.departure_delay, 0)),
     severely_delayed |-> Some(gt(r.departure_delay, 60)),
     time_of_day |-> pd_cut(Some(r.scheduled_departure.hour), time_bins, time_labels)]
    @@ r

\* data_loader.py: the columns derived from one merged row
lib_derived(r) ==
    [month_name |-> month_name(r.scheduled_departure.date),
     day_of_week |-> day_name(r.scheduled_departure.date),
     date |-> r.scheduled_departure.date,
     hour |-> r.scheduled_departure.hour,
     delay_category |-> pd_cut(r.departure_delay, delay_bins, delay_labels),
     is_delayed |-> Some(gt(r.departure_delay, 0)),
     on_time |-> Some(le(r.departure_delay, 15)),
     severely_delayed |-> Some(gt(r.departure_delay, 60)),
     time_of_day |-> pd_cut(Some(r.scheduled_departure.hour), time_bins, time_labels)]
    @@ r

\* an enrichment that stamps its rows with the number of the pass that made them
lib_enrich_by_pass(fl, ap, al, ac) ==
    LET m1 == merge(fl, al, "airline_id", "airline_id", <<"_x", "_y">>)
        m2 == merge(m1, ap, "origin", "airport_code", <<"_x", "_y">>)
        m3 == merge(m2, ac, "aircraft_id", "aircraft_id", <<"_x", "_y">>)
        m4 == rename(m3, origin_names)
    IN  [i \in 1..Len(m4) |-> [lib_derived(m4[i]) EXCEPT !.hour = passes]]

\* data_loader.py load_and_process_data, after the four reads
lib_enrich(fl, ap, al, ac) ==
    LET m1 == merge(fl, al, "airline_id", "airline_id", <<"_x", "_y">>)
        m2 == merge(m1, ap, "origin", "airport_code", <<"_x", "_y">>)
        m3 == merge(m2, ac, "aircraft_id", "aircraft_id", <<"_x", "_y">>)
        m4 == rename(m3, origin_names)
    IN  [i \in 1..Len(m4) |-> lib_derived(m4[i])]

\* app.py: the columns derived from one merged row
app_derived(r) ==
    [month_name |-> month_name(r.scheduled_departure.date),
     day_of_week |-> day_name(r.scheduled_departure.date),
     date |-> r.scheduled_departure.date,
     hour |-> r.scheduled_departure.hour,
     delay_category |-> pd_cut(r.departure_delay, delay_bins, delay_labels),
     is_delayed |-> Some(gt(r.departure_delay, 0)),
     on_time |-> Some(le(r.departure_delay, 15))] @@ r

\* app.py load_data, the try block after the four reads
app_enrich(fl, ap, al, ac) ==
    LET m1 == merge(fl, al, "airline_id", "airline_id", <<"_x", "_y">>)
        m2 == merge(m1, ap, "origin", "airport_code", <<"_x", "_y">>)
        m3 == merge(m2, ac, "aircraft_id", "aircraft_id", <<"_x", "_y">>)
        m4 == rename(m3, origin_names)
    IN  [i \in 1..Len(m4) |-> app_derived(m4[i])]

\* app3.py: the columns derived from one merged row
app3_derived(r) ==
    [month_name |-> month_name(r.scheduled_departure.date),
     day_of_week |-> day_name(r.scheduled_departure.date),
     date |-> r.scheduled_departure.date,
     hour |-> r.scheduled_departure.hour,
     departure_delay_category |-> pd_cut(r.departure_delay, delay_bins, delay_labels),
     arrival_delay_category |-> pd_cut(r.arrival_delay, delay_bins, delay_labels),
     departure_is_delayed |-> Some(gt(r.departure_delay, 0)),
     departure_on_time |-> Some(le(r.departure_delay, 15)),
     arrival_is_delayed |-> Some(gt(r.arrival_delay, 0)),
     arrival_on_time |-> Some(le(r.arrival_delay, 15))] @@ r

\* app3.py prepare_datasets: one of its two datasets, from the flights whose
\* column col (origin or destination) is a NY/NJ airport
app3_dataset(fl, ap, al, ac, col) ==
    LET m0 == SelectSeq(fl, LAMBDA r : r[col] \in ny_nj_airports)
        m1 == merge(m0, al, "airline_id", "airline_id", <<"_x", "_y">>)
        m2 == merge(m1, ap, "origin", "airport_code", <<"_x", "_y">>)
        m3 == rename(m2, origin_names)
        m4 == merge(m3, project(ap, {"airport_code", "name", "latitude", "longitude"}),
                    "destination", "airport_code", <<"", "_dest">>)
        m5 == rename(m4, destination_names)
        m6 == merge(m5, ac, "aircraft_id", "aircraft_id", <<"_x", "_y">>)
    IN  [i \in 1..Len(m6) |-> app3_derived(m6[i])]

\* app2.py: the columns derived from one merged row
app2_derived(r) ==
    [date_dep |-> r.scheduled_departure.date,
     hour_dep |-> r.scheduled_departure.hour,
     departure_delay_category |-> pd_cut(r.departure_delay, delay_bins, delay_labels),
     arrival_delay_category |-> pd_cut(r.arrival_delay, delay_bins, delay_labels),
     departure_is_delayed |-> Some(gt(r.departure_delay, 0)),
     departure_on_time |-> Some(le(r.departure_delay, 0)),
     arrival_is_delayed |-> Some(gt(r.arrival_delay, 0)),
     arrival_on_time |-> Some(le(r.arrival_delay, 0))] @@ r

\* app2.py module level: one of its two datasets
app2_dataset(fl, ap, al, ac, col) ==
    LET m0 == SelectSeq(fl, LAMBDA r : r[col] \in ny_nj_airports)
        m1 == merge(m0, al, "airline_id", "airline_id", <<"_x", "_y">>)
        m2 == merge(m1, ac, "aircraft_id", "aircraft_id", <<"_x", "_y">>)
        m3 == merge(m2, ap, "origin", "airport_code", <<"_x", "_y">>)
        m4 == rename(m3, origin_names)
        m5 == merge(m4, ap, "destination", "airport_code", <<"_x", "_y">>)
        m6 == rename(m5, destination_names)
    IN  [i \in 1..Len(m6) |-> app2_derived(m6[i])]

-----------------------------------------------------------------------------
(* Numbers: a float is NaN or <<[num, den]>>, an exact fraction in lowest terms *)

RECURSIVE gcd(_, _)
gcd(a, b) == IF b = 0 THEN a ELSE gcd(b, a % b)

abs(a) == IF a < 0 THEN 0 - a ELSE a

Frac(a, b) ==
    LET g == gcd(abs(a), abs(b))
        sg == IF b < 0 THEN 0 - 1 ELSE 1
    IN  [num |-> (sg * a) \div g, den |-> (sg * b) \div g]

Number(n) == Some(Frac(n, 1))

\* count / n with a numpy integer count: 0 / 0 and k / 0 give nan or inf with a
\* RuntimeWarning, not an exception; the model keeps one not-a-number value
np_divide(a, b) == IF b = 0 THEN NaN ELSE Some(Frac(a, b))

times(x, k) == IF isna(x) THEN NaN ELSE Some(Frac(x[1].num * k, x[1].den))

RECURSIVE SumSeq(_)
SumSeq(q) == IF q = <<>> THEN 0 ELSE Head(q) + SumSeq(Tail(q))

RECURSIVE Insert(_, _)
Insert(x, q) ==
    IF q = <<>> THEN <<x>>
    ELSE IF x <= Head(q) THEN <<x>> \o q ELSE <<Head(q)>> \o Insert(x, Tail(q))

RECURSIVE Sorted(_)
Sorted(q) == IF q = <<>> THEN <<>> ELSE Insert(Head(q), Sorted(Tail(q)))

\* the values of a column, NaN skipped
dropna(t, c) ==
    LET present == SelectSeq(t, LAMBDA r : notna(r[c]))
    IN  [i \in 1..Len(present) |-> present[i][c][1]]

\* Series.mean(), .median(), .max(), .sum(): NaN is skipped, and an empty
\* Series has mean, median and max NaN and sum 0
mean(t, c) ==
    LET v == dropna(t, c)
    IN  IF v = <<>> THEN NaN ELSE Some(Frac(SumSeq(v), Len(v)))

median(t, c) ==
    LET v == Sorted(dropna(t, c))
        n == Len(v)
    IN  IF n = 0 THEN NaN
        ELSE IF n % 2 = 1 THEN Number(v[(n + 1) \div 2])
        ELSE Some(Frac(v[n \div 2] + v[n \div 2 + 1], 2))

max(t, c) ==
    LET v == Sorted(dropna(t, c))
    IN  IF v = <<>> THEN NaN ELSE Number(v[Len(v)])

\* (Series of booleans).sum(): the number of True cells
count_true(t, c) == Len(SelectSeq(t, LAMBDA r : r[c] = Some(TRUE)))

-----------------------------------------------------------------------------
(* Filtering *)

\* filter_data with the end of the date range excluded
filter_data_end_excluded(t, a, l, dr) ==
    LET f1 == IF a # {} THEN SelectSeq(t, LAMBDA r : r.origin \in a) ELSE t
        f2 == IF l # {}
              THEN SelectSeq(f1, LAMBDA r : notna(r.airline) /\ r.airline[1] \in l)
              ELSE f1
    IN  IF dr # <<>> /\ Len(dr) = 2
        THEN SelectSeq(f2, LAMBDA r : r.date >= dr[1] /\ r.date < dr[2])
        ELSE f2

\* data_loader.py filter_data(df, airports, airlines, date_range): each filter
\* is applied only when its argument is truthy (not None, not empty)
filter_data(t, a, l, dr) ==
    LET f1 == IF a # {} THEN SelectSeq(t, LAMBDA r : r.origin \in a) ELSE t
        f2 == IF l # {}
              THEN SelectSeq(f1, LAMBDA r : notna(r.airline) /\ r.airline[1] \in l)
              ELSE f1
    IN  IF dr # <<>> /\ Len(dr) = 2
        THEN SelectSeq(f2, LAMBDA r : r.date >= dr[1] /\ r.date <= dr[2])
        ELSE f2

\* app.py / app3.py mask: the last operand is (date <= date_range[1] if
\* len(date_range) > 1 else date_range[0]); with one date only it is the date
\* itself, and a boolean Series & a datetime.date raises TypeError
mask_raises(dr) == Len(dr) <= 1

\* a mask without the airport operand
mask_any_airport(r, airport_column, a, l, dr) ==
    /\ notna(r.airline) /\ r.airline[1] \in l
    /\ r.date >= dr[1]
    /\ r.date <= dr[2]

\* the mask for one row, with both dates: isin(selected_airports) &
\* isin(selected_airlines) & date >= date_range[0] & date <= date_range[1]
mask(r, airport_column, a, l, dr) ==
    /\ r[airport_column] \in a
    /\ notna(r.airline) /\ r.airline[1] \in l
    /\ r.date >= dr[1]
    /\ r.date <= dr[2]

\* working_df[mask].copy()
apply_mask(t, airport_column, a, l, dr) ==
    SelectSeq(t, LAMBDA r : mask(r, airport_column, a, l, dr))

\* sorted(working_df[airport_column].unique()), as a set
unique(t, c) == {t[i][c] : i \in 1..Len(t)}

\* sorted(working_df['airline'].dropna().unique()), as a set
airlines_list(t) == {t[i].airline[1] : i \in {j \in 1..Len(t) : notna(t[j].airline)}}

min_date(t) == CHOOSE d \in unique(t, "date") : \A e \in unique(t, "date") : d <= e
max_date(t) == CHOOSE d \in unique(t, "date") : \A e \in unique(t, "date") : d >= e

\* st.date_input(value=(min_date, max_date), min_value=min_date,
\* max_value=max_date): a complete range picked within the limits, or the
\* start date alone while the user is still picking the end date
date_inputs(t) ==
    {dr \in (min_date(t)..max_date(t)) \X (min_date(t)..max_date(t)) : dr[1] <= dr[2]}
    \cup {<<d>> : d \in min_date(t)..max_date(t)}

-----------------------------------------------------------------------------
(* The sidebar's widgets and st.session_state *)

\* the keys the dashboards keep in st.session_state: app.py's two multiselect
\* keys, app3.py's stored selections
SessionKeys ==
    {"airport_multiselect", "airline_multiselect",
     "selected_airports_Departure Delays", "selected_airports_Arrival Delays",
     "selected_airlines"}

\* app3.py: the keys of the multiselects that are built with default=
WidgetKeys ==
    {"airport_multiselect_Departure Delays", "airport_multiselect_Arrival Delays",
     "airline_multiselect"}

\* one key for the airports of both delay types
session_key_shared(dt) == "selected_airports_Departure Delays"

\* app3.py session_key = f'selected_airports_{delay_type}'
session_key(dt) ==
    IF dt = "Departure Delays" THEN "selected_airports_Departure Delays"
    ELSE "selected_airports_Arrival Delays"

\* app3.py key=f"airport_multiselect_{delay_type}"
airport_widget_key(dt) ==
    IF dt = "Departure Delays" THEN "airport_multiselect_Departure Delays"
    ELSE "airport_multiselect_Arrival Delays"

\* if key not in st.session_state: st.session_state[key] = value
setdefault(ss, key, value) ==
    IF ss[key] = None THEN [ss EXCEPT ![key] = Some(value)] ELSE ss

\* if st.button(...): st.session_state[key] = value
set_if(pressed, ss, key, value) ==
    IF pressed THEN [ss EXCEPT ![key] = Some(value)] ELSE ss

\* st.multiselect(options=, default=, key=): the element is identified by its
\* arguments. One with the arguments of the last run keeps the value the user
\* gave it; with any other arguments it is a new element that returns default
multiselect(w, options, default) ==
    IF w # None /\ w[1].options = options /\ w[1].default = default
    THEN w[1]
    ELSE [options |-> options, default |-> default, value |-> default]

\* "Every Multiselect default value must exist in options"
multiselect_raises(options, value) == ~(value \subseteq options)

\* app.py default_airlines: four names in the code, here the two that the
\* airlines sheet of the model has
default_airlines == {"Delta Air Lines Inc.", "United Air Lines Inc."}

\* a session in which no script has run yet
fresh_session == [k \in SessionKeys |-> None]
no_widgets == [k \in WidgetKeys |-> None]

\* what the user can do to start a run
no_interaction == [kind |-> "none", value |-> {}]
Buttons == {"select_airports", "deselect_airports", "select_airlines", "deselect_airlines"}
pressed(key) == interaction.kind = key

-----------------------------------------------------------------------------
(* Aggregation: the scalar KPIs *)

\* data_loader.py calculate_kpis
calculate_kpis(t) ==
    [total_flights |-> Len(t),
     avg_delay |-> mean(t, "departure_delay"),
     median_delay |-> median(t, "departure_delay"),
     on_time_pct |-> IF Len(t) > 0
                     THEN times(np_divide(count_true(t, "on_time"), Len(t)), 100)
                     ELSE Number(0),
     delayed_pct |-> IF Len(t) > 0
                     THEN times(np_divide(count_true(t, "is_delayed"), Len(t)), 100)
                     ELSE Number(0),
     severe_delay_pct |-> IF Len(t) > 0
                     THEN times(np_divide(count_true(t, "severely_delayed"), Len(t)), 100)
                     ELSE Number(0),
     total_delay_minutes |->
        Number(SumSeq(dropna(SelectSeq(t, LAMBDA r : r.is_delayed = Some(TRUE)),
                             "departure_delay"))),
     max_delay |-> max(t, "departure_delay")]

\* app.py KPI cards: all is df[mask], t its rows with a departure time
app_kpis(all, t) ==
    [total_flights |-> Len(all),
     on_time_pct |->
        times(np_divide(Len(SelectSeq(t, LAMBDA r : le(r.departure_delay, 0))), Len(t)), 100),
     avg_delay |-> mean(t, "departure_delay"),
     cancelled |-> Len(SelectSeq(all, LAMBDA r : isna(r.departure_delay))),
     severe_pct |->
        times(np_divide(Len(SelectSeq(t, LAMBDA r : gt(r.departure_delay, 60))), Len(t)), 100),
     median_delay |-> median(t, "departure_delay")]

\* app3.py KPI cards over the delay column of the chosen delay type
app3_kpis(t, delay_column) ==
    [avg_delay |-> mean(t, delay_column),
     on_time_pct |->
        times(np_divide(Len(SelectSeq(t, LAMBDA r : le(r[delay_column], 15))), Len(t)), 100),
     total_flights |-> Len(t),
     severe_pct |->
        times(np_divide(Len(SelectSeq(t, LAMBDA r : gt(r[delay_column], 60))), Len(t)), 100)]

\* the KPIs of a dashboard computed as count / len(filtered_df) * 100
pct_kpis == {"on_time_pct", "severe_pct"}

-----------------------------------------------------------------------------
(* Aggregation: the grouped summaries. A Series is a sequence of           *)
(* [key, value] records in index order.                                    *)

\* the values of the text columns in ascending (alphabetical) order, the order
\* in which groupby lists its keys
ascending(by) ==
    CASE by \in {"origin", "destination"} ->
            <<"BOS", "EWR", "JFK", "LGA", "ORD", "SWF">>
      [] by = "airline" -> <<"Delta Air Lines Inc.", "United Air Lines Inc.">>
      [] by = "day_of_week" ->
            <<"Friday", "Monday", "Saturday", "Sunday", "Thursday", "Tuesday",
              "Wednesday">>
      [] by = "month_name" -> <<"February", "January">>

\* the group key of a row: a null key (an airline without reference row) is NaN
key_of(r, by) == IF by = "airline" THEN r[by] ELSE Some(r[by])

\* the keys groupby(by) finds in a table, ascending; rows with a null key are
\* in no group
group_keys(t, by) ==
    LET present == {key_of(t[i], by)[1] :
                        i \in {j \in 1..Len(t) : notna(key_of(t[j], by))}}
    IN  IF by \in {"date", "week_start", "hour"}
        THEN LET n == Cardinality(present)
                 nth[k \in 1..n] ==
                     CHOOSE d \in present : Cardinality({e \in present : e < d}) = k - 1
             IN  [k \in 1..n |-> nth[k]]
        ELSE SelectSeq(ascending(by), LAMBDA k : k \in present)

\* the rows of one group
group(t, by, k) == SelectSeq(t, LAMBDA r : key_of(r, by) = Some(k))

\* df.groupby(by)[col].mean() without its division by the group's count: the
\* sum of the group's delays
groupby_sum(t, by, col) ==
    LET keys == group_keys(t, by)
    IN  [i \in 1..Len(keys) |->
            [key |-> keys[i],
             value |-> Number(SumSeq(dropna(group(t, by, keys[i]), col)))]]

\* df.groupby(by)[col].mean()
groupby_mean(t, by, col) ==
    LET keys == group_keys(t, by)
    IN  [i \in 1..Len(keys) |->
            [key |-> keys[i], value |-> mean(group(t, by, keys[i]), col)]]

\* df.groupby(by).size()
groupby_size(t, by) ==
    LET keys == group_keys(t, by)
    IN  [i \in 1..Len(keys) |->
            [key |-> keys[i], value |-> Len(group(t, by, keys[i]))]]

\* x <= y for two floats; NaN sorts last
float_le(x, y) ==
    IF isna(y) THEN TRUE
    ELSE IF isna(x) THEN FALSE
    ELSE x[1].num * y[1].den <= y[1].num * x[1].den

RECURSIVE insert_by_value(_, _)
insert_by_value(e, q) ==
    IF q = <<>> THEN <<e>>
    ELSE IF float_le(Head(q).value, e.value)
         THEN <<Head(q)>> \o insert_by_value(e, Tail(q))
         ELSE <<e>> \o q

\* Series.sort_values(ascending=True): by value, equal values in index order
RECURSIVE sort_values(_)
sort_values(q) ==
    IF q = <<>> THEN <<>>
    ELSE insert_by_value(q[Len(q)], sort_values(SubSeq(q, 1, Len(q) - 1)))

\* a Series as it comes out of groupby, its index left in ascending key order
reindex_none(q, index) == q

\* Series.reindex(index): one entry per label of index, in that order, NaN for
\* a label the Series does not have
reindex(q, index) ==
    [i \in 1..Len(index) |->
        [key |-> index[i],
         value |-> IF \E j \in 1..Len(q) : q[j].key = index[i]
                   THEN q[CHOOSE j \in 1..Len(q) : q[j].key = index[i]].value
                   ELSE NaN]]

\* np.linspace(0, 90, 19): 0, 5, ..., 90
delay_threshold == [i \in 1..19 |-> 5 * (i - 1)]

\* cum_data with each count taken over the flights of its own airport
app_cum_data_per_airport(t) ==
    Concat([i \in 1..Len(delay_threshold) |->
        LET delayed_flights ==
                SelectSeq(t, LAMBDA r : ge(r.departure_delay, delay_threshold[i]))
            airport_counts == groupby_size(delayed_flights, "origin")
        IN  [j \in 1..Len(airport_counts) |->
                [Airport |-> airport_counts[j].key,
                 Delay_Threshold |-> delay_threshold[i],
                 Percentage |->
                    times(np_divide(airport_counts[j].value,
                                    Len(group(t, "origin", airport_counts[j].key))),
                          100)]]])

\* app.py cum_data: for each threshold, one record per airport that has a
\* flight at or over it, its Percentage the count over len(filtered_df)
app_cum_data(t) ==
    Concat([i \in 1..Len(delay_threshold) |->
        LET delayed_flights ==
                SelectSeq(t, LAMBDA r : ge(r.departure_delay, delay_threshold[i]))
            airport_counts == groupby_size(delayed_flights, "origin")
        IN  [j \in 1..Len(airport_counts) |->
                [Airport |-> airport_counts[j].key,
                 Delay_Threshold |-> delay_threshold[i],
                 Percentage |->
                    times(np_divide(airport_counts[j].value, Len(t)), 100)]]])

\* create_heatmap: groupby(['day_of_week', 'hour']).mean(), pivoted to one row
\* per day and one column per hour, the rows reindexed to day_order
create_heatmap(t) ==
    LET hours == group_keys(t, "hour")
        days == group_keys(t, "day_of_week")
        pivot == [i \in 1..Len(days) |->
                    [key |-> days[i],
                     value |-> [h \in Range(hours) |->
                        mean(SelectSeq(group(t, "day_of_week", days[i]),
                                       LAMBDA r : r.hour = h), "departure_delay")]]]
    IN  [i \in 1..Len(day_order) |->
            [key |-> day_order[i],
             value |-> IF \E j \in 1..Len(pivot) : pivot[j].key = day_order[i]
                       THEN pivot[CHOOSE j \in 1..Len(pivot) :
                                      pivot[j].key = day_order[i]].value
                       ELSE [h \in Range(hours) |-> NaN]]]

\* create_time_series: the column the chosen frequency groups by
x_col(freq) ==
    CASE freq = "D" -> "date" [] freq = "W" -> "week_start" [] OTHER -> "month_name"

\* create_time_series with freq 'W': df['week_start'] = ... writes a column
\* into the table the caller passed
add_week_start(t) ==
    [i \in 1..Len(t) |->
        [week_start |-> week_start(t[i].scheduled_departure.date)] @@ t[i]]

\* DataFrame.copy(): a new object / no copy: the same object
no_copy(id) == id
copy(id) == "filtered"

\* df[mask] with a boolean mask: a new object
boolean_index(id) == "filtered"

\* the object filter_data returns: filtered = df.copy(), then one boolean
\* selection per filter that applies
filter_data_id(id, a, l, dr) ==
    LET f0 == copy(id)
        f1 == IF a # {} THEN boolean_index(f0) ELSE f0
        f2 == IF l # {} THEN boolean_index(f1) ELSE f1
    IN  IF dr # <<>> /\ Len(dr) = 2 THEN boolean_index(f2) ELSE f2

-----------------------------------------------------------------------------
(* Inputs: the sheets of the source file *)

base_airports ==
    <<[airport_code |-> "JFK", name |-> "John F Kennedy Intl", latitude |-> 40, longitude |-> -73],
      [airport_code |-> "LGA", name |-> "La Guardia", latitude |-> 40, longitude |-> -73],
      [airport_code |-> "BOS", name |-> "Logan Intl", latitude |-> 42, longitude |-> -71]>>
base_airlines ==
    <<[airline_id |-> 1, airline |-> "Delta Air Lines Inc."],
      [airline_id |-> 2, airline |-> "United Air Lines Inc."]>>
base_aircrafts ==
    <<[aircraft_id |-> 1, model |-> "A320"]>>

\* reference sheets: with unique keys, and with a key that occurs twice
RefSheets ==
    {[airports |-> base_airports, airlines |-> base_airlines, aircrafts |-> base_aircrafts],
     [airports |-> base_airports \o <<base_airports[1]>>, airlines |-> base_airlines,
      aircrafts |-> base_aircrafts],
     [airports |-> base_airports, airlines |-> base_airlines \o <<base_airlines[1]>>,
      aircrafts |-> base_aircrafts]}

unique_key(t, k) == \A i, j \in 1..Len(t) : t[i][k] = t[j][k] => i = j

flight_row(origin, destination, airline_id, aircraft_id, date, delay) ==
    [flight |-> 100, airline_id |-> airline_id, aircraft_id |-> aircraft_id,
     origin |-> origin, destination |-> destination,
     scheduled_departure |-> [date |-> date, hour |-> 8],
     departure |-> IF isna(delay) THEN NaN ELSE Some([date |-> date, hour |-> 8]),
     departure_delay |-> delay, arrival_delay |-> delay]

Delays == {NaN} \cup {Some(d) : d \in (0 - MaxEarly)..MaxDelay}

\* flights that differ in one join key each: an airline, an aircraft, an origin
\* or a destination without a reference row, an origin outside NY/NJ
KeyRows ==
    {flight_row(k[1], k[2], k[3], k[4], 1, Some(20)) :
        k \in {<<"JFK", "BOS", 1, 1>>, <<"JFK", "BOS", 9, 1>>, <<"JFK", "BOS", 1, 9>>,
               <<"SWF", "BOS", 1, 1>>, <<"JFK", "ORD", 2, 1>>, <<"BOS", "JFK", 1, 1>>,
               <<"BOS", "ORD", 2, 1>>}}

SeqsUpTo(S, n) == UNION {[1..k -> S] : k \in 0..n}

source_file(fl, refs) ==
    [exists |-> TRUE, unreadable |-> {}, has_columns |-> TRUE, flights |-> fl,
     airports |-> refs.airports, airlines |-> refs.airlines, aircrafts |-> refs.aircrafts]

base_refs ==
    [airports |-> base_airports, airlines |-> base_airlines, aircrafts |-> base_aircrafts]

\* a flight scheduled at hour h of day 1
flight_at_hour(h) ==
    [flight_row("JFK", "LGA", 1, 1, 1, Some(20))
        EXCEPT !.scheduled_departure = [date |-> 1, hour |-> h],
               !.departure = Some([date |-> 1, hour |-> h])]

EnrichFiles ==
    {source_file(<<flight_row("JFK", "LGA", 1, 1, 1, d)>>, base_refs) : d \in Delays}
    \cup {source_file(<<flight_at_hour(h)>>, base_refs) : h \in 0..23}
    \cup {source_file(fl, refs) : fl \in SeqsUpTo(KeyRows, MaxRows), refs \in RefSheets}

\* flights that differ in what the filters and the KPIs look at: airport,
\* airline (9 has no reference row), day, and delay (NaN: cancelled)
FilterRows ==
    {flight_row("JFK", "LGA", 1, 1, 1, Some(20)),
     flight_row("LGA", "BOS", 2, 1, 2, NaN),
     flight_row("BOS", "JFK", 1, 1, 3, Some(0)),
     flight_row("JFK", "LGA", 9, 1, 2, Some(61)),
     flight_row("LGA", "JFK", 2, 1, 1, Some(10)),
     flight_row("JFK", "BOS", 1, 1, 3, NaN)}

\* a source file that is missing, has an unreadable sheet, or lacks a column
broken_file(exists, unreadable, has_columns) ==
    [source_file(<<flight_row("JFK", "LGA", 1, 1, 1, Some(20))>>, base_refs)
        EXCEPT !.exists = exists, !.unreadable = unreadable, !.has_columns = has_columns]

BrokenFiles ==
    {broken_file(FALSE, {}, TRUE), broken_file(TRUE, {}, FALSE)}
    \cup {broken_file(TRUE, {sheet}, TRUE) : sheet \in Range(Sheets)}

\* two flights of day 1 (a Sunday) with delays 10 and 20 and one of day 2 (a
\* Monday) with delay 5
example_flights ==
    <<flight_row("JFK", "LGA", 1, 1, 1, Some(10)),
      flight_row("JFK", "LGA", 1, 1, 1, Some(20)),
      flight_row("LGA", "JFK", 2, 1, 2, Some(5))>>

PassFiles ==
    {source_file(fl, base_refs) : fl \in SeqsUpTo(FilterRows, MaxRows)}
    \cup {source_file(example_flights, base_refs)}
    \cup BrokenFiles

\* arguments a caller passes to filter_data
FilterAirports == SUBSET {"JFK", "BOS"}
FilterAirlines == SUBSET {"Delta Air Lines Inc.", "United Air Lines Inc."}
FilterDateRanges == {<<>>} \cup {dr \in (1..MaxDate) \X (1..MaxDate) : dr[1] <= dr[2]}

DelayTypes == {"Departure Delays", "Arrival Delays"}

\* arguments a caller passes to create_delay_bar_chart and create_time_series
GroupColumns == {"origin", "airline"}
Frequencies == {"D", "W", "M"}

Variants == {"lib", "app", "app2", "app3"}

\* the source files of a session: the example flights, one flight only, and
\* no file at all; between two interactions the file may become another one
SessionFiles ==
    {source_file(example_flights, base_refs),
     source_file(<<example_flights[3]>>, base_refs),
     broken_file(FALSE, {}, TRUE)}

\* 07_demo: wdi.csv, present or missing
wdi_rows ==
    <<[iso3 |-> "FRA", year |-> 2000, life_expectancy |-> Some(79), country |-> "France"],
      [iso3 |-> "DEU", year |-> 2000, life_expectancy |-> Some(78), country |-> "Germany"],
      [iso3 |-> "FRA", year |-> 2001, life_expectancy |-> NaN, country |-> "France"]>>

demo_file(exists, rows) == [exists |-> exists, wdi |-> rows]

DemoFiles ==
    {demo_file(TRUE, wdi_rows), demo_file(TRUE, <<wdi_rows[1]>>),
     demo_file(FALSE, wdi_rows)}

\* options of the year selectbox
Years == {2000, 2001}

\* the source files of the sidebar sessions: the example flights; a flight out
\* of JFK with one airline and a flight into JFK, out of Boston, with the other
SidebarFiles ==
    {source_file(example_flights, base_refs),
     source_file(<<flight_row("JFK", "BOS", 1, 1, 1, Some(20)),
                   flight_row("BOS", "JFK", 2, 1, 2, Some(5))>>, base_refs)}

changed_files(f) == (IF variant = "demo" THEN DemoFiles ELSE SessionFiles) \ {f}

-----------------------------------------------------------------------------
(* Loading and enrichment, one action per function or script section *)

\* data_loader.py load_and_process_data: an exception of a read or of a merge
\* propagates to the caller, who gets no table; nothing is cached
LibLoadAndProcess ==
    /\ variant = "lib" /\ pc = "start"
    /\ LET t == load_sheets(file)
       IN  /\ IF reads_raised(t) \/ ~schema_ok(file)
              THEN /\ raised' = Some(IF reads_raised(t) THEN "read_excel" ELSE "KeyError")
                   /\ pc' = "crashed"
                   /\ UNCHANGED <<df, airports, airlines, aircrafts>>
              ELSE /\ df' = Some(lib_enrich(t.flights[1], t.airports[1], t.airlines[1],
                                             t.aircrafts[1]))
                   /\ airports' = t.airports
                   /\ airlines' = t.airlines
                   /\ aircrafts' = t.aircrafts
                   /\ pc' = "filter"
                   /\ UNCHANGED raised
           /\ reads' = count_reads(reads, file)
           /\ enrichments' = IF reads_raised(t) THEN enrichments ELSE enrichments + 1
    /\ UNCHANGED <<variant, file, flights, departures, arrivals, error_shown,
                   passvars,
                   filtered_id, chartvars,
                   cache, passes, file_changed, previous>>
    /\ UNCHANGED uivars

\* app.py load_data, cached: reads, merges and derives inside one try block;
\* the except branch renders the error and returns None four times. A later
\* call gets the stored return value, its st.error element replayed.
AppLoadData ==
    /\ variant = "app" /\ pc = "start"
    /\ LET hit == cached(cache, "load_data", no_args)
           t == load_sheets(file)
           value ==
               IF reads_raised(t) \/ ~schema_ok(file)
               THEN [tables |-> <<None, None, None, None>>, error |-> TRUE]
               ELSE [tables |-> <<Some(app_enrich(t.flights[1], t.airports[1],
                                                  t.airlines[1], t.aircrafts[1])),
                                  t.airports, t.airlines, t.aircrafts>>,
                     error |-> FALSE]
           out == IF hit # None THEN hit[1] ELSE value
       IN  /\ df' = out.tables[1]
           /\ airports' = out.tables[2]
           /\ airlines' = out.tables[3]
           /\ aircrafts' = out.tables[4]
           /\ error_shown' = out.error
           /\ cache' = IF hit # None THEN cache
                       ELSE store(cache, "load_data", no_args, value)
           /\ reads' = IF hit # None THEN reads ELSE count_reads(reads, file)
           /\ enrichments' = IF hit # None \/ reads_raised(t)
                             THEN enrichments ELSE enrichments + 1
    /\ pc' = "guard"
    /\ UNCHANGED <<variant, file, flights, departures, arrivals, raised,
                   passvars,
                   filtered_id, chartvars,
                   passes, file_changed, previous>>
    /\ UNCHANGED uivars

\* app.py: if df is not None
AppGuard ==
    /\ variant = "app" /\ pc = "guard"
    /\ pc' = IF df # None THEN "sidebar" ELSE "done"
    /\ UNCHANGED <<variant, file, flights, airports, airlines, aircrafts, df,
                   departures, arrivals, error_shown, raised,
                   passvars,
                   filtered_id, chartvars,
                   sessvars>>
    /\ UNCHANGED uivars

\* app3.py load_data, cached: the four reads in a try block
App3LoadData ==
    /\ variant = "app3" /\ pc = "start"
    /\ LET hit == cached(cache, "load_data", no_args)
           t == load_sheets(file)
           value == [tables |-> <<t.flights, t.airports, t.airlines, t.aircrafts>>,
                     error |-> reads_raised(t)]
           out == IF hit # None THEN hit[1] ELSE value
       IN  /\ flights' = out.tables[1]
           /\ airports' = out.tables[2]
           /\ airlines' = out.tables[3]
           /\ aircrafts' = out.tables[4]
           /\ error_shown' = out.error
           /\ cache' = IF hit # None THEN cache
                       ELSE store(cache, "load_data", no_args, value)
           /\ reads' = IF hit # None THEN reads ELSE count_reads(reads, file)
    /\ pc' = "guard"
    /\ UNCHANGED <<variant, file, df, departures, arrivals, raised,
                   passvars,
                   filtered_id, chartvars,
                   enrichments, passes, file_changed, previous>>
    /\ UNCHANGED uivars

\* app3.py: if flights is not None
App3Guard ==
    /\ variant = "app3" /\ pc = "guard"
    /\ pc' = IF flights # None THEN "prepare" ELSE "done"
    /\ UNCHANGED <<variant, file, flights, airports, airlines, aircrafts, df,
                   departures, arrivals, error_shown, raised,
                   passvars,
                   filtered_id, chartvars,
                   sessvars>>
    /\ UNCHANGED uivars

\* app3.py prepare_datasets, cached on its four arguments and called outside
\* any try block: a KeyError ends the pass and stores nothing
App3PrepareDatasets ==
    /\ variant = "app3" /\ pc = "prepare"
    /\ LET args == <<flights, airports, airlines, aircrafts>>
           hit == cached(cache, "prepare_datasets", args)
           value == <<Some(app3_dataset(flights[1], airports[1], airlines[1],
                                        aircrafts[1], "origin")),
                      Some(app3_dataset(flights[1], airports[1], airlines[1],
                                        aircrafts[1], "destination"))>>
       IN  IF hit # None
           THEN /\ departures' = hit[1][1]
                /\ arrivals' = hit[1][2]
                /\ pc' = "sidebar"
                /\ UNCHANGED <<raised, cache, enrichments>>
           ELSE /\ enrichments' = enrichments + 1
                /\ IF ~schema_ok(file)
                   THEN /\ raised' = Some("KeyError")
                        /\ pc' = "crashed"
                        /\ UNCHANGED <<departures, arrivals, cache>>
                   ELSE /\ departures' = value[1]
                        /\ arrivals' = value[2]
                        /\ cache' = store(cache, "prepare_datasets", args, value)
                        /\ pc' = "sidebar"
                        /\ UNCHANGED raised
    /\ UNCHANGED <<variant, file, flights, airports, airlines, aircrafts, df, error_shown,
                   passvars,
                   filtered_id, chartvars,
                   reads, passes, file_changed, previous>>
    /\ UNCHANGED uivars

\* app2.py load_data, cached: the four reads in a try block
App2LoadData ==
    /\ variant = "app2" /\ pc = "start"
    /\ LET hit == cached(cache, "load_data", no_args)
           t == load_sheets(file)
           value == [tables |-> <<t.flights, t.airports, t.airlines, t.aircrafts>>,
                     error |-> reads_raised(t)]
           out == IF hit # None THEN hit[1] ELSE value
       IN  /\ flights' = out.tables[1]
           /\ airports' = out.tables[2]
           /\ airlines' = out.tables[3]
           /\ aircrafts' = out.tables[4]
           /\ error_shown' = out.error
           /\ cache' = IF hit # None THEN cache
                       ELSE store(cache, "load_data", no_args, value)
           /\ reads' = IF hit # None THEN reads ELSE count_reads(reads, file)
    /\ pc' = "enrich"
    /\ UNCHANGED <<variant, file, df, departures, arrivals, raised,
                   passvars,
                   filtered_id, chartvars,
                   enrichments, passes, file_changed, previous>>
    /\ UNCHANGED uivars

\* app2.py module level, reached whatever load_data returned and run by every
\* pass: subscripting None raises TypeError, a missing column KeyError
App2Enrich ==
    /\ variant = "app2" /\ pc = "enrich"
    /\ IF flights = None \/ ~schema_ok(file)
       THEN /\ raised' = Some(IF flights = None THEN "TypeError" ELSE "KeyError")
            /\ pc' = "crashed"
            /\ UNCHANGED <<departures, arrivals>>
       ELSE /\ departures' = Some(app2_dataset(flights[1], airports[1], airlines[1],
                                                aircrafts[1], "origin"))
            /\ arrivals' = Some(app2_dataset(flights[1], airports[1], airlines[1],
                                              aircrafts[1], "destination"))
            /\ pc' = "sidebar"
            /\ UNCHANGED raised
    /\ enrichments' = IF flights = None THEN enrichments ELSE enrichments + 1
    /\ UNCHANGED <<variant, file, flights, airports, airlines, aircrafts, df, error_shown,
                   passvars,
                   filtered_id, chartvars,
                   cache, reads, passes, file_changed, previous>>
    /\ UNCHANGED uivars

\* a caller of data_loader.py: filter_data on the enriched table
LibFilterData ==
    /\ variant = "lib" /\ pc = "filter"
    /\ \E a \in FilterAirports, l \in FilterAirlines, dr \in FilterDateRanges :
        /\ selected_airports' = a
        /\ selected_airlines' = l
        /\ date_range' = dr
        /\ filtered_df' = Some(filter_data(df[1], a, l, dr))
        /\ filtered_id' = filter_data_id("enriched", a, l, dr)
    /\ pc' = "kpis"
    /\ UNCHANGED <<variant, file, flights, airports, airlines, aircrafts, df, departures,
                   arrivals, error_shown, raised, delay_type, filtered_df_all, kpis,
                   zero_divisions,
                   chartvars,
                   sessvars>>
    /\ UNCHANGED uivars

\* a caller of data_loader.py: calculate_kpis on the filtered table
LibCalculateKpis ==
    /\ variant = "lib" /\ pc = "kpis"
    /\ kpis' = Some(calculate_kpis(filtered_df[1]))
    /\ pc' = "charts"
    /\ UNCHANGED <<variant, file, flights, airports, airlines, aircrafts, df, departures,
                   arrivals, error_shown, raised, delay_type, selected_airports,
                   selected_airlines, date_range, filtered_df_all, filtered_df,
                   zero_divisions,
                   filtered_id, chartvars,
                   sessvars>>
    /\ UNCHANGED uivars

\* app.py sidebar and filter. The two multiselects are bound to their keys in
\* st.session_state, which the script sets before it builds them; the date
\* input rejects the NaN limits of an empty table; then the mask is applied
AppSidebar ==
    /\ variant = "app" /\ pc = "sidebar"
    /\ LET available_airports == unique(df[1], "origin") \cap ny_nj_airports
           s1 == setdefault(session_state, "airport_multiselect", available_airports)
           s2 == set_if(pressed("select_airports"), s1, "airport_multiselect",
                        available_airports)
           s3 == set_if(pressed("deselect_airports"), s2, "airport_multiselect", {})
           a  == s3["airport_multiselect"][1]
           s4 == setdefault(s3, "airline_multiselect", default_airlines)
           s5 == set_if(pressed("select_airlines"), s4, "airline_multiselect",
                        airlines_list(df[1]))
           s6 == set_if(pressed("deselect_airlines"), s5, "airline_multiselect", {})
           l  == s6["airline_multiselect"][1]
       IN  IF multiselect_raises(available_airports, a)
           THEN /\ session_state' = s3
                /\ raised' = Some("StreamlitAPIException")
                /\ pc' = "crashed"
                /\ UNCHANGED <<selected_airports, selected_airlines, date_range,
                               filtered_df_all, filtered_df, filtered_id>>
           ELSE IF multiselect_raises(airlines_list(df[1]), l)
           THEN /\ session_state' = s6
                /\ selected_airports' = a
                /\ raised' = Some("StreamlitAPIException")
                /\ pc' = "crashed"
                /\ UNCHANGED <<selected_airlines, date_range,
                               filtered_df_all, filtered_df, filtered_id>>
           ELSE /\ session_state' = s6
                /\ selected_airports' = a
                /\ selected_airlines' = l
                /\ IF df[1] = <<>>
                   THEN /\ raised' = Some("StreamlitAPIException")
                        /\ pc' = "crashed"
                        /\ UNCHANGED <<date_range, filtered_df_all, filtered_df,
                                       filtered_id>>
                   ELSE \E dr \in date_inputs(df[1]) :
                        /\ date_range' = dr
                        /\ IF mask_raises(dr)
                           THEN /\ raised' = Some("TypeError")
                                /\ pc' = "crashed"
                                /\ UNCHANGED <<filtered_df_all, filtered_df, filtered_id>>
                           ELSE /\ filtered_df_all' =
                                      Some(apply_mask(df[1], "origin", a, l, dr))
                                /\ filtered_df' =
                                      Some(SelectSeq(apply_mask(df[1], "origin", a, l, dr),
                                                     LAMBDA r : notna(r.departure)))
                                /\ filtered_id' =
                                      copy(boolean_index(copy(boolean_index("enriched"))))
                                /\ pc' = "kpis"
                                /\ UNCHANGED raised
    /\ UNCHANGED <<variant, file, flights, airports, airlines, aircrafts, df, departures,
                   arrivals, error_shown, delay_type, kpis, zero_divisions,
                   chartvars,
                   sessvars, widgets, interaction>>

\* app.py KPI cards
AppKpis ==
    /\ variant = "app" /\ pc = "kpis"
    /\ kpis' = Some(app_kpis(filtered_df_all[1], filtered_df[1]))
    /\ zero_divisions' = {k \in pct_kpis : Len(filtered_df[1]) = 0}
    /\ pc' = "charts"
    /\ UNCHANGED <<variant, file, flights, airports, airlines, aircrafts, df, departures,
                   arrivals, error_shown, raised, delay_type, selected_airports,
                   selected_airlines, date_range, filtered_df_all, filtered_df,
                   filtered_id, chartvars,
                   sessvars>>
    /\ UNCHANGED uivars

working_df(dt) == IF dt = "Departure Delays" THEN departures[1] ELSE arrivals[1]
airport_column(dt) == IF dt = "Departure Delays" THEN "origin" ELSE "destination"
delay_column(dt) == IF dt = "Departure Delays" THEN "departure_delay" ELSE "arrival_delay"

\* app3.py sidebar and filter. The stored selections are passed to the
\* multiselects as their default and overwritten with what they return
App3Sidebar ==
    /\ variant = "app3" /\ pc = "sidebar"
    /\ LET t == working_df(delay_type)
           available_airports == unique(t, airport_column(delay_type))
           s1 == setdefault(session_state, session_key(delay_type), available_airports)
           s2 == set_if(pressed("select_airports"), s1, session_key(delay_type),
                        available_airports)
           s3 == set_if(pressed("deselect_airports"), s2, session_key(delay_type), {})
           valid_selection == s3[session_key(delay_type)][1] \cap available_airports
           w1 == multiselect(widgets[airport_widget_key(delay_type)],
                             available_airports, valid_selection)
           a  == w1.value
           s4 == [s3 EXCEPT ![session_key(delay_type)] = Some(a)]
           s5 == set_if(pressed("select_airlines"), s4, "selected_airlines",
                        airlines_list(t))
           s6 == set_if(pressed("deselect_airlines"), s5, "selected_airlines", {})
           s7 == setdefault(s6, "selected_airlines", airlines_list(t))
           default == s7["selected_airlines"][1]
           w2 == multiselect(widgets["airline_multiselect"], airlines_list(t), default)
           l  == w2.value
       IN  /\ selected_airports' = a
           /\ IF multiselect_raises(airlines_list(t), default)
              THEN /\ session_state' = s7
                   /\ widgets' = [widgets EXCEPT ![airport_widget_key(delay_type)] = Some(w1)]
                   /\ raised' = Some("StreamlitAPIException")
                   /\ pc' = "crashed"
                   /\ UNCHANGED <<selected_airlines, date_range, filtered_df, filtered_id>>
              ELSE /\ session_state' = [s7 EXCEPT !["selected_airlines"] = Some(l)]
                   /\ widgets' = [widgets EXCEPT ![airport_widget_key(delay_type)] = Some(w1),
                                                 !["airline_multiselect"] = Some(w2)]
                   /\ selected_airlines' = l
                   /\ IF t = <<>>
                      THEN /\ raised' = Some("StreamlitAPIException")
                           /\ pc' = "crashed"
                           /\ UNCHANGED <<date_range, filtered_df, filtered_id>>
                      ELSE \E dr \in date_inputs(t) :
                           /\ date_range' = dr
                           /\ IF mask_raises(dr)
                              THEN /\ raised' = Some("TypeError")
                                   /\ pc' = "crashed"
                                   /\ UNCHANGED <<filtered_df, filtered_id>>
                              ELSE /\ filtered_df' =
                                         Some(apply_mask(t, airport_column(delay_type),
                                                         a, l, dr))
                                   /\ filtered_id' = copy(boolean_index("enriched"))
                                   /\ pc' = "kpis"
                                   /\ UNCHANGED raised
    /\ UNCHANGED <<variant, file, flights, airports, airlines, aircrafts, df, departures,
                   arrivals, error_shown, delay_type, filtered_df_all, kpis,
                   zero_divisions,
                   chartvars,
                   sessvars, interaction>>

\* app3.py KPI cards
App3Kpis ==
    /\ variant = "app3" /\ pc = "kpis"
    /\ kpis' = Some(app3_kpis(filtered_df[1], delay_column(delay_type)))
    /\ zero_divisions' = {k \in pct_kpis : Len(filtered_df[1]) = 0}
    /\ pc' = "charts"
    /\ UNCHANGED <<variant, file, flights, airports, airlines, aircrafts, df, departures,
                   arrivals, error_shown, raised, delay_type, selected_airports,
                   selected_airlines, date_range, filtered_df_all, filtered_df,
                   filtered_id, chartvars,
                   sessvars>>
    /\ UNCHANGED uivars

\* app2.py sidebar and its one KPI, the mean delay of the whole dataset
App2Sidebar ==
    /\ variant = "app2" /\ pc = "sidebar"
    /\ kpis' = Some([avg_delay |-> mean(working_df(delay_type), delay_column(delay_type))])
    /\ pc' = "done"
    /\ UNCHANGED <<variant, file, flights, airports, airlines, aircrafts, df, departures,
                   arrivals, error_shown, raised, delay_type, selected_airports,
                   selected_airlines,
                   date_range, filtered_df_all, filtered_df, zero_divisions,
                   filtered_id, chartvars,
                   sessvars>>
    /\ UNCHANGED uivars

\* a caller of data_loader.py then charts the filtered table with one of the
\* functions of visualizations.py: create_delay_bar_chart(df, by)
LibCreateDelayBarChart ==
    /\ variant = "lib" /\ pc = "charts"
    /\ \E by \in GroupColumns :
        /\ chart_by' = by
        /\ airport_delays' =
              Some(sort_values(groupby_mean(filtered_df[1], by, "departure_delay")))
    /\ pc' = "done"
    /\ UNCHANGED <<variant, file, flights, airports, airlines, aircrafts, df, departures,
                   arrivals, error_shown, raised, passvars, filtered_id, cum_data,
                   time_series, dow_delays, heatmap_pivot, chart_freq,
                   sessvars>>
    /\ UNCHANGED uivars

\* visualizations.py create_time_series(df, freq) on the filtered table: with
\* freq 'W' it first writes the week_start column into the table it was given,
\* which is the caller's object (and the enriched table, were they the same)
LibCreateTimeSeries ==
    /\ variant = "lib" /\ pc = "charts"
    /\ \E freq \in Frequencies :
        LET t == IF freq = "W" THEN add_week_start(filtered_df[1]) ELSE filtered_df[1]
        IN  /\ chart_freq' = freq
            /\ filtered_df' = Some(t)
            /\ df' = IF freq = "W" /\ filtered_id = "enriched"
                     THEN Some(add_week_start(df[1]))
                     ELSE df
            /\ time_series' = Some(groupby_mean(t, x_col(freq), "departure_delay"))
    /\ pc' = "done"
    /\ UNCHANGED <<variant, file, flights, airports, airlines, aircrafts, departures,
                   arrivals, error_shown, raised, delay_type, selected_airports,
                   selected_airlines, date_range, filtered_df_all, kpis, zero_divisions,
                   filtered_id, cum_data, airport_delays, dow_delays, heatmap_pivot,
                   chart_by,
                   sessvars>>
    /\ UNCHANGED uivars

\* visualizations.py create_heatmap(df) on the filtered table
LibCreateHeatmap ==
    /\ variant = "lib" /\ pc = "charts"
    /\ heatmap_pivot' = Some(create_heatmap(filtered_df[1]))
    /\ pc' = "done"
    /\ UNCHANGED <<variant, file, flights, airports, airlines, aircrafts, df, departures,
                   arrivals, error_shown, raised, passvars, filtered_id, cum_data,
                   airport_delays, time_series, dow_delays, chart_by, chart_freq,
                   sessvars>>
    /\ UNCHANGED uivars

\* app.py charts: the cumulative-delay records and the grouped means by
\* airport, by date and by day of week, all read from filtered_df
AppCharts ==
    /\ variant = "app" /\ pc = "charts"
    /\ cum_data' = Some(app_cum_data(filtered_df[1]))
    /\ airport_delays' =
          Some(sort_values(groupby_mean(filtered_df[1], "origin", "departure_delay")))
    /\ time_series' = Some(groupby_mean(filtered_df[1], "date", "departure_delay"))
    /\ dow_delays' =
          Some(reindex(groupby_mean(filtered_df[1], "day_of_week", "departure_delay"),
                       day_order))
    /\ pc' = "done"
    /\ UNCHANGED <<variant, file, flights, airports, airlines, aircrafts, df, departures,
                   arrivals, error_shown, raised, passvars, filtered_id, heatmap_pivot,
                   chart_by, chart_freq,
                   sessvars>>
    /\ UNCHANGED uivars

\* app3.py charts: the grouped means by airport, by date and by day of week
App3Charts ==
    /\ variant = "app3" /\ pc = "charts"
    /\ airport_delays' =
          Some(sort_values(groupby_mean(filtered_df[1], airport_column(delay_type),
                                        delay_column(delay_type))))
    /\ time_series' =
          Some(groupby_mean(filtered_df[1], "date", delay_column(delay_type)))
    /\ dow_delays' =
          Some(reindex(groupby_mean(filtered_df[1], "day_of_week",
                                    delay_column(delay_type)),
                       day_order))
    /\ pc' = "done"
    /\ UNCHANGED <<variant, file, flights, airports, airlines, aircrafts, df, departures,
                   arrivals, error_shown, raised, passvars, filtered_id, cum_data,
                   heatmap_pivot, chart_by, chart_freq,
                   sessvars>>
    /\ UNCHANGED uivars

\* the first line of a script run, with an empty cache
InitRun(scripts, files) ==
    /\ variant \in scripts
    /\ file \in files
    /\ pc = "start"
    /\ flights = None /\ airports = None /\ airlines = None /\ aircrafts = None
    /\ df = None /\ departures = None /\ arrivals = None
    /\ error_shown = FALSE
    /\ raised = None
    /\ selected_airports = {} /\ selected_airlines = {} /\ date_range = <<>>
    /\ filtered_df_all = None /\ filtered_df = None
    /\ kpis = None
    /\ zero_divisions = {}
    /\ filtered_id = "none"
    /\ cum_data = None /\ airport_delays = None /\ time_series = None
    /\ dow_delays = None /\ heatmap_pivot = None
    /\ chart_by = "origin" /\ chart_freq = "D"
    /\ cache = [load_data |-> None, prepare_datasets |-> None]
    /\ reads = [s \in Range(Sheets) \cup {"wdi"} |-> 0]
    /\ enrichments = 0
    /\ passes = 1
    /\ file_changed = FALSE
    /\ previous = None

\* the first line of a script of a new session: the radio at its index 0,
\* nothing in st.session_state
InitScript(scripts, files) ==
    /\ InitRun(scripts, files)
    /\ delay_type = "Departure Delays"
    /\ session_state = fresh_session
    /\ widgets = no_widgets
    /\ interaction = no_interaction

\* the source file can be read and has the columns the scripts use
loads(f) == f.exists /\ f.unreadable = {} /\ f.has_columns

\* the tables the sidebar of a script takes its options from, given the source
\* file (no rows when the file does not load)
sidebar_table(script, f, dt) ==
    IF ~loads(f) THEN <<>>
    ELSE IF script = "app"
         THEN app_enrich(f.flights, f.airports, f.airlines, f.aircrafts)
         ELSE app3_dataset(f.flights, f.airports, f.airlines, f.aircrafts,
                           airport_column(dt))

\* the sidebar states a session is in after the user has set the airports to a
\* and the airlines to l and the script has run once more
settled_session(script, dt, options_a, options_l, a, l) ==
    IF script = "app"
    THEN [session_state |->
              [fresh_session EXCEPT !["airport_multiselect"] = Some(a),
                                    !["airline_multiselect"] = Some(l)],
          widgets |-> no_widgets]
    ELSE [session_state |->
              [fresh_session EXCEPT ![session_key(dt)] = Some(a),
                                    !["selected_airlines"] = Some(l)],
          widgets |->
              [no_widgets EXCEPT
                  ![airport_widget_key(dt)] =
                      Some([options |-> options_a, default |-> a, value |-> a]),
                  !["airline_multiselect"] =
                      Some([options |-> options_l, default |-> l, value |-> l])]]

SettledSessions(script, f, dt) ==
    IF script \notin {"app", "app3"} \/ ~loads(f)
    THEN {}
    ELSE LET t == sidebar_table(script, f, dt)
             options_a == IF script = "app"
                          THEN unique(t, "origin") \cap ny_nj_airports
                          ELSE unique(t, airport_column(dt))
             options_l == airlines_list(t)
         IN  {settled_session(script, dt, options_a, options_l, a, l) :
                 a \in SUBSET options_a, l \in SUBSET options_l}

\* a script run of a session: the first one, or a later one that finds the
\* radio and the selections as the user has left them
InitPass(files) ==
    /\ InitRun(Variants, files)
    /\ delay_type \in IF variant \in {"app2", "app3"} THEN DelayTypes
                      ELSE {"Departure Delays"}
    /\ \E u \in {[session_state |-> fresh_session, widgets |-> no_widgets]}
                 \cup SettledSessions(variant, file, delay_type) :
          /\ session_state = u.session_state
          /\ widgets = u.widgets
    /\ interaction = no_interaction

\* load and enrich only: the inputs are flights tables over every delay and
\* over the join-key cases
InitEnrich == InitScript(Variants, EnrichFiles)

NextEnrich ==
    \/ LibLoadAndProcess
    \/ AppLoadData
    \/ AppGuard
    \/ App3LoadData
    \/ App3Guard
    \/ App3PrepareDatasets
    \/ App2LoadData
    \/ App2Enrich

SpecEnrich == InitEnrich /\ [][NextEnrich]_vars

\* 07_demo/app.py load_data, cached: read_csv outside any try block; an
\* exception ends the pass and stores nothing
DemoLoadData ==
    /\ variant = "demo" /\ pc = "start"
    /\ LET hit == cached(cache, "load_data", no_args)
       IN  IF hit # None
           THEN /\ df' = hit[1]
                /\ pc' = "render"
                /\ UNCHANGED <<raised, cache, reads>>
           ELSE IF ~file.exists
                THEN /\ raised' = Some("FileNotFoundError")
                     /\ pc' = "crashed"
                     /\ UNCHANGED <<df, cache, reads>>
                ELSE /\ df' = Some(file.wdi)
                     /\ cache' = store(cache, "load_data", no_args, Some(file.wdi))
                     /\ reads' = [reads EXCEPT !["wdi"] = @ + 1]
                     /\ pc' = "render"
                     /\ UNCHANGED raised
    /\ UNCHANGED <<variant, file, flights, airports, airlines, aircrafts, departures,
                   arrivals, error_shown, passvars, filtered_id, chartvars,
                   enrichments, passes, file_changed, previous>>
    /\ UNCHANGED uivars

\* 07_demo/app.py: the rows of the selected year and their mean life expectancy
DemoRender ==
    /\ variant = "demo" /\ pc = "render"
    /\ \E year \in Years :
        LET plotdata == SelectSeq(df[1], LAMBDA r : r.year = year)
        IN  /\ filtered_df' = Some(plotdata)
            /\ kpis' = Some([mean_life_expectancy |-> mean(plotdata, "life_expectancy")])
    /\ pc' = "done"
    /\ UNCHANGED <<variant, file, flights, airports, airlines, aircrafts, df, departures,
                   arrivals, error_shown, raised, delay_type, selected_airports,
                   selected_airlines, date_range, filtered_df_all, zero_divisions,
                   filtered_id, chartvars, sessvars>>
    /\ UNCHANGED uivars

\* when a script run ends without an exception, Streamlit forgets the elements
\* that the run has not built: app3.py builds the airport multiselect of the
\* chosen delay type and the airline multiselect
kept_widgets ==
    IF variant = "app3" /\ pc = "done" /\ filtered_df # None
    THEN [k \in WidgetKeys |->
            IF k \in {airport_widget_key(delay_type), "airline_multiselect"}
            THEN widgets[k] ELSE None]
    ELSE widgets

other_delay_type(dt) ==
    IF dt = "Departure Delays" THEN "Arrival Delays" ELSE "Departure Delays"

\* the element behind an edit: app3.py's airport multiselect of the delay type
edited_widget(kind) ==
    IF kind = "airport_multiselect" THEN airport_widget_key(delay_type) ELSE kind

\* the last run has reached the sidebar and shown its buttons
SidebarShown ==
    \/ pc = "done" /\ kpis # None
    \/ raised \in {Some("StreamlitAPIException"), Some("TypeError")}

\* the last run has shown both multiselects with these options
shown_options(kind) ==
    IF ~((pc = "done" /\ kpis # None) \/ raised = Some("TypeError")) THEN None
    ELSE IF variant = "app"
         THEN Some(IF kind = "airport_multiselect"
                   THEN unique(df[1], "origin") \cap ny_nj_airports
                   ELSE airlines_list(df[1]))
         ELSE Some(widgets[edited_widget(kind)][1].options)

\* what the user can do after the last run
Interactions ==
    {no_interaction}
    \cup {[kind |-> b, value |-> {}] : b \in IF SidebarShown THEN Buttons ELSE {}}
    \cup {[kind |-> "delay_type", value |-> {}] :
             x \in IF SidebarShown /\ variant = "app3" THEN {1} ELSE {}}
    \cup UNION {{[kind |-> k, value |-> v] :
                    v \in IF shown_options(k) = None THEN {}
                          ELSE SUBSET shown_options(k)[1]} :
                 k \in {"airport_multiselect", "airline_multiselect"}}

\* the next interaction of the session: the script runs again from its first
\* line with fresh module variables, the cache kept; the source file may have
\* been changed in between. (For data_loader.py: the caller loads again.)
Rerun ==
    /\ pc \in {"done", "crashed"}
    /\ passes < MaxPasses
    /\ \E f \in {file} \cup changed_files(file) :
        /\ file' = f
        /\ file_changed' = (file_changed \/ f # file)
    /\ previous' = Some([file |-> file, df |-> df, departures |-> departures,
                         arrivals |-> arrivals])
    /\ passes' = passes + 1
    /\ pc' = "start"
    /\ flights' = None /\ airports' = None /\ airlines' = None /\ aircrafts' = None
    /\ df' = None /\ departures' = None /\ arrivals' = None
    /\ error_shown' = FALSE
    /\ raised' = None
    /\ selected_airports' = {} /\ selected_airlines' = {} /\ date_range' = <<>>
    /\ filtered_df_all' = None /\ filtered_df' = None
    /\ kpis' = None
    /\ zero_divisions' = {}
    /\ filtered_id' = "none"
    /\ cum_data' = None /\ airport_delays' = None /\ time_series' = None
    /\ dow_delays' = None /\ heatmap_pivot' = None
    /\ chart_by' = "origin" /\ chart_freq' = "D"
    /\ widgets' = kept_widgets
    /\ interaction' = no_interaction
    /\ UNCHANGED <<variant, cache, reads, enrichments, delay_type, session_state>>

\* the next interaction of the session with the sidebar, the source file left
\* alone: a button, an edit of a multiselect that the last run has shown, the
\* other choice of the delay-type radio, or anything else
Interact ==
    /\ pc \in {"done", "crashed"}
    /\ variant \in {"app", "app3"}
    /\ passes <= MaxInteractions
    /\ \E i \in Interactions :
        /\ interaction' = i
        /\ delay_type' = IF i.kind = "delay_type" THEN other_delay_type(delay_type)
                         ELSE delay_type
        /\ session_state' =
              IF variant = "app" /\ i.kind \in {"airport_multiselect", "airline_multiselect"}
              THEN [session_state EXCEPT ![i.kind] = Some(i.value)]
              ELSE session_state
        /\ widgets' =
              IF variant = "app3" /\ i.kind \in {"airport_multiselect", "airline_multiselect"}
              THEN [kept_widgets EXCEPT ![edited_widget(i.kind)] =
                                            Some([@[1] EXCEPT !.value = i.value])]
              ELSE kept_widgets
    /\ previous' = Some([file |-> file, df |-> df, departures |-> departures,
                         arrivals |-> arrivals])
    /\ passes' = passes + 1
    /\ pc' = "start"
    /\ flights' = None /\ airports' = None /\ airlines' = None /\ aircrafts' = None
    /\ df' = None /\ departures' = None /\ arrivals' = None
    /\ error_shown' = FALSE
    /\ raised' = None
    /\ selected_airports' = {} /\ selected_airlines' = {} /\ date_range' = <<>>
    /\ filtered_df_all' = None /\ filtered_df' = None
    /\ kpis' = None
    /\ zero_divisions' = {}
    /\ filtered_id' = "none"
    /\ cum_data' = None /\ airport_delays' = None /\ time_series' = None
    /\ dow_delays' = None /\ heatmap_pivot' = None
    /\ chart_by' = "origin" /\ chart_freq' = "D"
    /\ UNCHANGED <<variant, file, cache, reads, enrichments, file_changed>>

\* one render pass of a script (or one load / filter / KPI call sequence of a
\* caller of data_loader.py) over a source file
Init == InitPass(PassFiles)

Next ==
    \/ NextEnrich
    \/ LibFilterData
    \/ LibCalculateKpis
    \/ AppSidebar
    \/ AppKpis
    \/ App3Sidebar
    \/ App3Kpis
    \/ App2Sidebar
    \/ LibCreateDelayBarChart
    \/ LibCreateTimeSeries
    \/ LibCreateHeatmap
    \/ AppCharts
    \/ App3Charts

Spec == Init /\ [][Next]_vars

\* a session: up to MaxPasses interactions of one user with one script
InitSession ==
    \/ InitScript(Variants, SessionFiles)
    \/ InitScript({"demo"}, DemoFiles)

NextSession ==
    \/ Next
    \/ DemoLoadData
    \/ DemoRender
    \/ Rerun

SpecSession == InitSession /\ [][NextSession]_vars

-----------------------------------------------------------------------------
(* Project/keeling.py, the CO2 script. Concentrations are in hundredths of  *)
(* a ppm, so that the missing-value mark -99.99 is the integer -9999.       *)

\* the mark of a missing monthly average in co2_mm_mlo.csv
missing_average == 0 - 9999

\* ppm per year, in hundredths: recent_rate = 2.5
recent_rate == 250

\* the year the projection runs to: np.arange(last_year + 1, 2051)
projection_end == 2050

\* co2_data["average"].replace(-99.99, np.nan)
replace_missing(x) == IF x = missing_average THEN NaN ELSE Some(x)

\* x > 0 for a mean; NaN compares False
positive(x) == notna(x) /\ x[1].num > 0

\* the years of a table, ascending
years_of(t) ==
    LET S == {t[i].year : i \in 1..Len(t)}
    IN  CHOOSE q \in [1..Cardinality(S) -> S] : \A i, j \in 1..Cardinality(S) :
                                                    i < j => q[i] < q[j]

\* lines 8-13: the monthly rows with co2_ppm, their mean per year (NaN where a
\* year has missing values only), and of those the years with a mean over 0
annual_means(rows) ==
    LET co2_data == [i \in 1..Len(rows) |->
                        [year |-> rows[i].year,
                         co2_ppm |-> replace_missing(rows[i].average)]]
        years == years_of(co2_data)
        grouped == [i \in 1..Len(years) |->
                      [year |-> years[i],
                       co2_ppm |-> mean(SelectSeq(co2_data,
                                                  LAMBDA r : r.year = years[i]),
                                        "co2_ppm")]]
    IN  SelectSeq(grouped, LAMBDA r : positive(r.co2_ppm))

\* np.arange(start, stop)
arange(start, stop) ==
    IF stop > start THEN [i \in 1..(stop - start) |-> start + (i - 1)] ELSE <<>>

\* line 30: current_co2 + (projection_years - last_year) * recent_rate
projection(current_co2, last_year, projection_years) ==
    [i \in 1..Len(projection_years) |->
        Frac(current_co2.num + (projection_years[i] - last_year) * recent_rate
                               * current_co2.den,
             current_co2.den)]

\* lines 8-13: read the CSV and compute the annual means
KeelingRead ==
    /\ variant = "keeling" /\ pc = "start"
    /\ IF ~file.exists
       THEN /\ raised' = Some("FileNotFoundError")
            /\ pc' = "crashed"
            /\ UNCHANGED df
       ELSE /\ df' = Some(annual_means(file.co2))
            /\ pc' = "statistics"
            /\ UNCHANGED raised
    /\ UNCHANGED kpis
    /\ UNCHANGED <<variant, file, flights, airports, airlines, aircrafts, departures,
                   arrivals, error_shown, passvars_but_kpis, filtered_id, chartvars,
                   sessvars, uivars>>

\* lines 16-19: the last and the first annual value; .iloc[-1] of an empty
\* Series raises IndexError
KeelingStatistics ==
    /\ variant = "keeling" /\ pc = "statistics"
    /\ IF df[1] = <<>>
       THEN /\ raised' = Some("IndexError")
            /\ pc' = "crashed"
            /\ UNCHANGED kpis
       ELSE /\ kpis' = Some([current_co2 |-> df[1][Len(df[1])].co2_ppm[1],
                             co2_1958 |-> df[1][1].co2_ppm[1]])
            /\ pc' = "projection"
            /\ UNCHANGED raised
    /\ UNCHANGED df
    /\ UNCHANGED <<variant, file, flights, airports, airlines, aircrafts, departures,
                   arrivals, error_shown, passvars_but_kpis, filtered_id, chartvars,
                   sessvars, uivars>>

\* lines 27-30: the projection to 2050
KeelingProjection ==
    /\ variant = "keeling" /\ pc = "projection"
    /\ LET last_year == df[1][Len(df[1])].year
           projection_years == arange(last_year + 1, projection_end + 1)
       IN  kpis' = Some([current_co2 |-> kpis[1].current_co2,
                         co2_1958 |-> kpis[1].co2_1958,
                         last_year |-> last_year,
                         projection_years |-> projection_years,
                         projection_values |->
                             projection(kpis[1].current_co2, last_year,
                                        projection_years)])
    /\ pc' = "annotate"
    /\ UNCHANGED <<df, raised>>
    /\ UNCHANGED <<variant, file, flights, airports, airlines, aircrafts, departures,
                   arrivals, error_shown, passvars_but_kpis, filtered_id, chartvars,
                   sessvars, uivars>>

\* lines 107-110: the "Projected 2050" annotation reads projection_values[-1],
\* which raises IndexError on an empty array
KeelingAnnotate ==
    /\ variant = "keeling" /\ pc = "annotate"
    /\ IF kpis[1].projection_values = <<>>
       THEN /\ raised' = Some("IndexError")
            /\ pc' = "crashed"
            /\ UNCHANGED kpis
       ELSE /\ kpis' = Some([projected_2050 |->
                                 kpis[1].projection_values[Len(kpis[1].projection_values)]]
                            @@ kpis[1])
            /\ pc' = "done"
            /\ UNCHANGED raised
    /\ UNCHANGED df
    /\ UNCHANGED <<variant, file, flights, airports, airlines, aircrafts, departures,
                   arrivals, error_shown, passvars_but_kpis, filtered_id, chartvars,
                   sessvars, uivars>>

\* Project/keeling.py: co2_mm_mlo.csv with up to MaxMonths monthly rows of the
\* years up to MaxYear, an average missing or given; or no file
co2_rows ==
    {[year |-> y, average |-> a] :
        y \in (MaxYear - 2)..MaxYear, a \in {missing_average, 42000, 42650}}

co2_file(exists, rows) == [exists |-> exists, co2 |-> rows]

KeelingFiles ==
    {co2_file(TRUE, rows) : rows \in SeqsUpTo(co2_rows, MaxMonths)}
    \cup {co2_file(FALSE, <<>>)}

\* one run of keeling.py over a CSV file
InitKeeling == InitScript({"keeling"}, KeelingFiles)

NextKeeling ==
    \/ KeelingRead
    \/ KeelingStatistics
    \/ KeelingProjection
    \/ KeelingAnnotate

SpecKeeling == InitKeeling /\ [][NextKeeling]_vars

\* a session with the sidebar of app.py or app3.py: the first run and up to
\* MaxInteractions interactions
InitSidebar == InitScript({"app", "app3"}, SidebarFiles)

NextSidebar ==
    \/ AppLoadData
    \/ AppGuard
    \/ App3LoadData
    \/ App3Guard
    \/ App3PrepareDatasets
    \/ AppSidebar
    \/ AppKpis
    \/ App3Sidebar
    \/ App3Kpis
    \/ AppCharts
    \/ App3Charts
    \/ Interact

SpecSidebar == InitSidebar /\ [][NextSidebar]_vars

-----------------------------------------------------------------------------
(* Properties of the enriched tables *)

\* the enriched tables the current script has built so far
Enriched ==
    IF variant \in {"lib", "app"}
    THEN IF df = None THEN {} ELSE {df[1]}
    ELSE IF departures = None THEN {} ELSE {departures[1], arrivals[1]}

EnrichedRows == UNION {Range(t) : t \in Enriched}

\* the departure flags and category of a row, under the script's column names
is_delayed_of(r) ==
    IF variant \in {"lib", "app"} THEN r.is_delayed ELSE r.departure_is_delayed
on_time_of(r) ==
    IF variant \in {"lib", "app"} THEN r.on_time ELSE r.departure_on_time
category_of(r) ==
    IF variant \in {"lib", "app"} THEN r.delay_category ELSE r.departure_delay_category

\* C1: in every row of the enriched table, departure_delay is null if and only
\* if is_delayed, on_time, severely_delayed (where derived) and delay_category
\* are all null; a cancelled flight never gets a flag coerced to false.
C1_NullDelayIffNullFlags ==
    \A r \in EnrichedRows :
        isna(r.departure_delay) <=>
            /\ isna(is_delayed_of(r))
            /\ isna(on_time_of(r))
            /\ variant = "lib" => isna(r.severely_delayed)
            /\ isna(category_of(r))

RefKeysUnique ==
    /\ unique_key(file.airports, "airport_code")
    /\ unique_key(file.airlines, "airline_id")
    /\ unique_key(file.aircrafts, "aircraft_id")

FlightColumns == Columns(<<flight_row("JFK", "LGA", 1, 1, 1, NaN)>>)

\* the flights a NY/NJ dataset is built from
NyNjFlights(col) == SelectSeq(file.flights, LAMBDA r : r[col] \in ny_nj_airports)

\* out has exactly the rows of in, in order, each with the joined columns of
\* its reference rows, or with nulls where no reference row has its key
OneRowPerFlight(out, in) ==
    /\ Len(out) = Len(in)
    /\ \A i \in 1..Len(in) :
        /\ [c \in FlightColumns |-> out[i][c]] = in[i]
        /\ isna(out[i].airline) <=>
               ~\E a \in Range(file.airlines) : a.airline_id = in[i].airline_id
        /\ isna(out[i].origin_airport_name) <=>
               ~\E a \in Range(file.airports) : a.airport_code = in[i].origin
        /\ isna(out[i].model) <=>
               ~\E a \in Range(file.aircrafts) : a.aircraft_id = in[i].aircraft_id

\* C3 as stated: with unique reference keys, every enrichment step outputs a
\* table whose row count equals the flights row count.
C3_RowCountEqualsFlights ==
    RefKeysUnique => \A t \in Enriched : Len(t) = Len(file.flights)

\* C3 amended: with unique reference keys the enrichment outputs exactly one
\* row per flight row it joins, a flight without a reference row kept with
\* nulls in the joined columns: every flight row in data_loader.py and app.py
\* (row count = flights row count); in app2.py and app3.py the flights whose
\* origin (departures) or destination (arrivals) is a NY/NJ airport.
C3_OneRowPerJoinedFlight ==
    RefKeysUnique =>
        /\ (variant \in {"lib", "app"} /\ df # None) =>
               OneRowPerFlight(df[1], file.flights)
        /\ (variant \in {"app2", "app3"} /\ departures # None) =>
               /\ OneRowPerFlight(departures[1], NyNjFlights("origin"))
               /\ OneRowPerFlight(arrivals[1], NyNjFlights("destination"))

\* C3 witness: two flights were enriched, one of them without a reference row
\* for its airline, and both are in the enriched table
C3_Witness ==
    /\ RefKeysUnique
    /\ variant = "lib" /\ df # None
    /\ Len(file.flights) = 2 /\ Len(df[1]) = 2
    /\ \E i \in 1..2 : isna(df[1][i].airline) /\ notna(df[1][3 - i].airline)

ExpectedCategory(d) ==
    IF d <= 0 THEN "On Time/Early"
    ELSE IF d <= 15 THEN "Minor (1-15 min)"
    ELSE IF d <= 60 THEN "Moderate (16-60 min)"
    ELSE "Major (>60 min)"

\* C9: delay_category puts every non-null departure_delay in exactly one of
\* four ranges with edges 0, 15 and 60, each edge in the lower bucket:
\* d <= 0 On Time/Early, 0 < d <= 15 Minor, 15 < d <= 60 Moderate, d > 60 Major.
C9_DelayCategoryPartition ==
    \A r \in EnrichedRows :
        notna(r.departure_delay) =>
            /\ category_of(r) = Some(ExpectedCategory(r.departure_delay[1]))
            /\ Cardinality({l \in Range(delay_labels) : category_of(r) = Some(l)}) = 1

\* C9 witness: flights on the edges and just past them have been categorised
\* (15 is Minor here; 0, 16, 60 and 61 are reached in the same way)
C9_Witness ==
    \E r \in EnrichedRows :
        r.departure_delay = Some(15) /\ category_of(r) = Some("Minor (1-15 min)")

\* C10 as stated: for every row with a non-null delay d, in every script,
\* is_delayed = (d > 0), on_time = (d <= 15) and severely_delayed = (d > 60).
C10_FlagsThreshold15Everywhere ==
    \A r \in EnrichedRows :
        notna(r.departure_delay) =>
            LET d == r.departure_delay[1]
            IN  /\ is_delayed_of(r) = Some(d > 0)
                /\ on_time_of(r) = Some(d <= 15)
                /\ variant = "lib" => r.severely_delayed = Some(d > 60)

\* C10 amended: is_delayed = (d > 0) in every script; severely_delayed =
\* (d > 60) in data_loader.py, the one script that derives it; on_time =
\* (d <= 15) in data_loader.py, app.py and app3.py but (d <= 0) in app2.py;
\* d = 20 gives is_delayed true, on_time false and 'Moderate (16-60 min)'.
C10_DerivedFlags ==
    \A r \in EnrichedRows :
        notna(r.departure_delay) =>
            LET d == r.departure_delay[1]
            IN  /\ is_delayed_of(r) = Some(d > 0)
                /\ on_time_of(r) = Some(IF variant = "app2" THEN d <= 0 ELSE d <= 15)
                /\ variant = "lib" => r.severely_delayed = Some(d > 60)
                /\ d = 20 => /\ is_delayed_of(r) = Some(TRUE)
                             /\ on_time_of(r) = Some(FALSE)
                             /\ category_of(r) = Some("Moderate (16-60 min)")

\* C10 witness: data_loader.py has derived the flags of a flight 20 minutes late
C10_Witness ==
    /\ variant = "lib"
    /\ \E r \in EnrichedRows :
        /\ r.departure_delay = Some(20)
        /\ r.is_delayed = Some(TRUE) /\ r.on_time = Some(FALSE)

-----------------------------------------------------------------------------
(* Properties of a render pass *)

\* what the loader handed to its caller: (df, airports, airlines, aircrafts) in
\* data_loader.py and app.py, (flights, airports, airlines, aircrafts) otherwise
LoaderResult ==
    IF variant \in {"lib", "app"}
    THEN <<df, airports, airlines, aircrafts>>
    ELSE <<flights, airports, airlines, aircrafts>>

\* the filter step of this pass has run
Filtered == filtered_df # None

\* the filter step has just returned its table to the caller
FilterReturned == Filtered /\ pc = "kpis"

\* the table the filter was given and the table it returned
FilterInput == IF variant = "app3" THEN working_df(delay_type) ELSE df[1]
FilterOutput == IF variant = "app" THEN filtered_df_all[1] ELSE filtered_df[1]
FilterColumn == IF variant = "app3" THEN airport_column(delay_type) ELSE "origin"

InSelection(r) ==
    /\ r[FilterColumn] \in selected_airports
    /\ notna(r.airline) /\ r.airline[1] \in selected_airlines

\* C2: over a filtered subset with zero rows every percentage KPI is the
\* sentinel 0, never NaN, in calculate_kpis and in each dashboard.
C2_EmptySubsetPercentagesZero ==
    (Filtered /\ pc = "done" /\ filtered_df[1] = <<>>) =>
        \A k \in DOMAIN kpis[1] \cap
                  {"on_time_pct", "delayed_pct", "severe_delay_pct", "severe_pct"} :
            kpis[1][k] = Number(0)

\* C4 as stated: the filter output is exactly the rows with origin airport in
\* the accepted airports AND airline in the accepted airlines AND
\* start <= date <= end.
C4_FilterIsStrictConjunction ==
    (FilterReturned /\ Len(date_range) = 2) =>
        FilterOutput = SelectSeq(FilterInput, LAMBDA r :
            InSelection(r) /\ date_range[1] <= r.date /\ r.date <= date_range[2])

\* C4 amended: the filter output is exactly the enriched rows that satisfy all
\* three predicates together, both end dates included, where in filter_data an
\* empty (or omitted) airport set, airline set or date range does not restrict
\* its dimension, and the dashboards' masks apply all three as given.
C4_FilterSemantics ==
    FilterReturned =>
        FilterOutput = SelectSeq(FilterInput, LAMBDA r :
            /\ (variant = "lib" /\ selected_airports = {})
                  \/ r[FilterColumn] \in selected_airports
            /\ (variant = "lib" /\ selected_airlines = {})
                  \/ (notna(r.airline) /\ r.airline[1] \in selected_airlines)
            /\ date_range = <<>>
                  \/ (date_range[1] <= r.date /\ r.date <= date_range[2]))

\* C4 witness: filter_data, given an airport set, an airline set and a range,
\* kept a flight dated on the last day of the range and dropped another
C4_Witness ==
    /\ FilterReturned /\ variant = "lib"
    /\ selected_airports # {} /\ selected_airlines # {} /\ Len(date_range) = 2
    /\ \E r \in Range(FilterOutput) : r.date = date_range[2]
    /\ Len(FilterInput) = 2 /\ Len(FilterOutput) = 1

\* C5: with an empty airport set, an empty airline set and the full date range
\* every filter implementation returns the same thing: all of them the full
\* table or all of them the empty table.
C5_EmptySelectionOnePolicy ==
    (/\ FilterReturned /\ FilterInput # <<>>
     /\ selected_airports = {} /\ selected_airlines = {}
     /\ date_range = <<min_date(FilterInput), max_date(FilterInput)>>) =>
        LET outs == {FilterOutput,
                     filter_data(FilterInput, {}, {}, date_range),
                     apply_mask(FilterInput, FilterColumn, {}, {}, date_range)}
        IN  outs = {FilterInput} \/ outs = {<<>>}

\* C6: a dashboard render pass whose filters exclude every row completes in a
\* defined state: no aggregation step raises or divides by zero.
C6_EmptyPassDefined ==
    (Filtered /\ variant # "lib" /\ FilterOutput = <<>>) =>
        raised = None /\ zero_divisions = {}

\* C7: the loader hands its caller all four tables or none of them, whatever
\* sheet fails to read and whether or not a column is missing.
C7_AllFourOrNone ==
    \/ \A i \in 1..4 : LoaderResult[i] = None
    \/ \A i \in 1..4 : LoaderResult[i] # None

\* C7 witness: the third read (the airlines sheet) failed after two sheets
\* were read, and the caller holds no table
C7_Witness ==
    /\ pc # "start" /\ variant = "app3"
    /\ file.exists /\ file.unreadable = {"airlines"}
    /\ \A i \in 1..4 : LoaderResult[i] = None

\* C8: in every dashboard, when loading fails the error state is rendered and
\* no later step of the pass runs (none raises, no dataset is built).
C8_FailedLoadStopsPass ==
    (variant \in {"app", "app2", "app3"} /\ pc # "start" /\ LoaderResult[1] = None) =>
        /\ error_shown
        /\ raised = None
        /\ departures = None /\ df = None

-----------------------------------------------------------------------------
(* Properties of the aggregation layer *)

\* the KPI cards or the KPI dictionary of this pass have been computed
KpisComputed == kpis # None /\ "on_time_pct" \in DOMAIN kpis[1]

\* the delay column the KPIs of this pass are computed from
KpiDelayColumn ==
    IF variant = "app3" THEN delay_column(delay_type) ELSE "departure_delay"

\* C11: the on-time percentage counts a flight as on time exactly when its
\* delay is <= 15 minutes, in calculate_kpis and in every dashboard that shows
\* an on-time percentage (none of them takes a threshold parameter).
C11_OnTimePctThreshold15 ==
    (KpisComputed /\ filtered_df[1] # <<>>) =>
        kpis[1].on_time_pct =
            Some(Frac(100 * Len(SelectSeq(filtered_df[1],
                                LAMBDA r : le(r[KpiDelayColumn], 15))),
                      Len(filtered_df[1])))

-----------------------------------------------------------------------------
(* Frame properties of the filter and of the grouped summaries *)

\* the pass is past enrichment: it filters, aggregates or charts
AfterEnrichment ==
    pc \in {"filter", "sidebar", "kpis", "charts"}

\* C12: the filter step never mutates the enriched table it is given, and its
\* result is a separate table: no step from the filter on changes the
\* enriched table, and the filtered table is never the enriched object itself.
C12_FilterLeavesEnrichedTable ==
    [][AfterEnrichment =>
          /\ df' = df /\ departures' = departures /\ arrivals' = arrivals
          /\ filtered_id' # "enriched"]_vars

\* C12 witness: filter_data, with no restriction given, returned every row of
\* the enriched table; a column was later written into the returned table,
\* and the enriched table does not have it
C12_Witness ==
    /\ variant = "lib" /\ Filtered
    /\ selected_airports = {} /\ selected_airlines = {} /\ date_range = <<>>
    /\ df[1] # <<>> /\ Len(filtered_df[1]) = Len(df[1])
    /\ "week_start" \in Columns(filtered_df[1])
    /\ "week_start" \notin Columns(df[1])

\* a step of the pass computes a grouped summary
SummaryStep == pc = "charts"

\* C13: every grouped summary is a pure function of the filtered subset:
\* computing one leaves the subset it was given unchanged, no column added and
\* no row altered.
C13_SummariesLeaveSubset ==
    [][SummaryStep => filtered_df' = filtered_df]_vars

-----------------------------------------------------------------------------
(* Properties of the grouped summaries *)

\* the Percentage recorded for an airport and a threshold: the records' values
\* (none when the airport has no flight at or over the threshold)
Percentages(a, t) ==
    {e.Percentage : e \in {x \in Range(cum_data[1]) :
                                x.Airport = a /\ x.Delay_Threshold = t}}

\* C14: for each airport present in the filtered subset and each threshold
\* t in {0, 5, ..., 90} (19 values), the cumulative-delay value of the airport
\* is the percentage of that airport's flights whose departure_delay is >= t
\* (an airport with no such flight has no record, or the value 0).
C14_SurvivalCurvePerAirport ==
    cum_data # None =>
        /\ Len(delay_threshold) = 19
        /\ \A i \in 1..Len(delay_threshold) :
               delay_threshold[i] = 5 * (i - 1)
        /\ \A a \in unique(filtered_df[1], "origin") :
           \A i \in 1..Len(delay_threshold) :
               LET t == delay_threshold[i]
                   own == group(filtered_df[1], "origin", a)
                   n == Len(SelectSeq(own, LAMBDA r : ge(r.departure_delay, t)))
               IN  IF n = 0
                   THEN Percentages(a, t) \subseteq {Number(0)}
                   ELSE Percentages(a, t) = {Some(Frac(100 * n, Len(own)))}

\* the keys of a Series, in its index order
Index(q) == [i \in 1..Len(q) |-> q[i].key]

\* C15: the mean-delay-by-day-of-week summary is output in the order Monday,
\* Tuesday, ..., Sunday, whatever the order of the input rows and whichever
\* days occur in the filtered subset (in the dashboards' dow_delays and in the
\* rows of create_heatmap).
C15_DayOrderMondayToSunday ==
    /\ dow_delays # None => Index(dow_delays[1]) = day_order
    /\ heatmap_pivot # None => Index(heatmap_pivot[1]) = day_order

\* C15 witness: the subset's first rows are of a Sunday and a later row of a
\* Monday, and the summary lists Monday's mean first and Sunday's last
C15_Witness ==
    /\ dow_delays # None
    /\ Len(filtered_df[1]) = 3
    /\ filtered_df[1][1].day_of_week = "Sunday"
    /\ filtered_df[1][3].day_of_week = "Monday"
    /\ dow_delays[1][1] = [key |-> "Monday", value |-> Number(5)]
    /\ dow_delays[1][7] = [key |-> "Sunday", value |-> Number(15)]
    /\ isna(dow_delays[1][2].value)

\* the mean of the non-null delays of the rows of t whose group key is k: their
\* sum divided by their count, NaN when the group has no delay
MeanOfGroup(t, by, col, k) ==
    LET own == SelectSeq(t, LAMBDA r : notna(key_of(r, by)) /\ key_of(r, by)[1] = k)
        delays == SelectSeq(own, LAMBDA r : notna(r[col]))
    IN  IF delays = <<>> THEN NaN
        ELSE Some(Frac(SumSeq([i \in 1..Len(delays) |-> delays[i][col][1]]),
                       Len(delays)))

\* a Series holds, for the keys of its index, the grouped means of t
IsGroupedMean(q, t, by, col) ==
    \A e \in Range(q) :
        e.value = IF e.key \in Range(group_keys(t, by))
                  THEN MeanOfGroup(t, by, col, e.key)
                  ELSE NaN

\* and it has exactly one entry for each key that occurs in t
HasEveryGroup(q, t, by) ==
    /\ Range(Index(q)) = Range(group_keys(t, by))
    /\ Len(q) = Len(group_keys(t, by))

\* the column a dashboard groups by for its airport chart
AirportColumn == IF variant = "app3" THEN airport_column(delay_type) ELSE "origin"

\* C16: for every group key (airport, day or date) the grouped mean delay is
\* the sum of the non-null delays of that group's rows divided by their count,
\* independent of the rows of other groups; groups {A: [10, 20], B: [5]} give
\* {A: 15.0, B: 5.0}.
C16_GroupedMeanPerKey ==
    /\ (variant \in {"app", "app3"} /\ dow_delays # None) =>
        /\ IsGroupedMean(airport_delays[1], filtered_df[1], AirportColumn,
                         KpiDelayColumn)
        /\ HasEveryGroup(airport_delays[1], filtered_df[1], AirportColumn)
        /\ IsGroupedMean(time_series[1], filtered_df[1], "date", KpiDelayColumn)
        /\ HasEveryGroup(time_series[1], filtered_df[1], "date")
        /\ IsGroupedMean(dow_delays[1], filtered_df[1], "day_of_week", KpiDelayColumn)
    /\ (variant = "lib" /\ airport_delays # None) =>
        /\ IsGroupedMean(airport_delays[1], filtered_df[1], chart_by, "departure_delay")
        /\ HasEveryGroup(airport_delays[1], filtered_df[1], chart_by)
    /\ (variant = "lib" /\ time_series # None) =>
        /\ IsGroupedMean(time_series[1], filtered_df[1], x_col(chart_freq),
                         "departure_delay")
        /\ HasEveryGroup(time_series[1], filtered_df[1], x_col(chart_freq))

\* C16 witness: the subset has delays 10 and 20 on day 1 and 5 on day 2, and
\* the summary by date is {1: 15, 2: 5}
C16_Witness ==
    /\ variant = "app" /\ time_series # None
    /\ [i \in 1..Len(filtered_df[1]) |->
            <<filtered_df[1][i].date, filtered_df[1][i].departure_delay>>]
         = <<<<1, Some(10)>>, <<1, Some(20)>>, <<2, Some(5)>>>>
    /\ time_series[1] = <<[key |-> 1, value |-> Number(15)],
                          [key |-> 2, value |-> Number(5)]>>

-----------------------------------------------------------------------------
(* Properties of a session *)

Dashboards == {"app", "app2", "app3", "demo"}
FlightDashboards == {"app", "app2", "app3"}

\* what load_data returned to the script in this pass, and what the cache
\* holds for it
LoadDataReturned == IF variant = "demo" THEN df ELSE LoaderResult
LoadDataCached ==
    IF variant = "demo"
    THEN cache.load_data[1].value
    ELSE cache.load_data[1].value.tables

C18_ChangedFileReloaded ==
    (variant \in FlightDashboards /\ pc # "start") =>
        LET t == load_sheets(file)
        IN  IF reads_raised(t) \/ (variant = "app" /\ ~schema_ok(file))
            THEN LoaderResult = <<None, None, None, None>>
            ELSE /\ <<airports, airlines, aircrafts>> =
                        <<t.airports, t.airlines, t.aircrafts>>
                 /\ IF variant = "app"
                    THEN df = Some(app_enrich(t.flights[1], t.airports[1],
                                              t.airlines[1], t.aircrafts[1]))
                    ELSE flights = t.flights

\* C19: in every flight dashboard the enrichment step (joins and derived
\* columns) executes at most once in a session, not once per interaction.
C19_EnrichedOncePerSession ==
    variant \in FlightDashboards => enrichments <= 1

\* the enrichment step of this pass is over
EnrichmentOver == pc \notin {"start", "guard", "prepare", "enrich"}

-----------------------------------------------------------------------------
(* Properties of the sidebar *)

\* the options of the two multiselects of app.py / app3.py in this pass
AirportOptions ==
    IF variant = "app3"
    THEN unique(working_df(delay_type), airport_column(delay_type))
    ELSE unique(df[1], "origin") \cap ny_nj_airports
AirlineOptions == airlines_list(FilterInput)

\* the sidebar of app.py / app3.py has run and the mask has been applied
SidebarReturned == variant \in {"app", "app3"} /\ pc = "kpis"

\* the selections the session holds for the two filter dimensions
StoredAirports ==
    session_state[IF variant = "app" THEN "airport_multiselect"
                  ELSE session_key(delay_type)]
StoredAirlines ==
    session_state[IF variant = "app" THEN "airline_multiselect"
                  ELSE "selected_airlines"]

\* C21: Select All sets the selection of its filter dimension to all the
\* options and Clear All sets it to the empty set; that selection is the one
\* the filter of the same pass uses; and a run that no button and no edit of
\* a multiselect has started finds the selections as the last run left them.
C21_ButtonsSetSelection ==
    /\ [](SidebarReturned =>
            /\ pressed("select_airports") => selected_airports = AirportOptions
            /\ pressed("deselect_airports") => selected_airports = {}
            /\ pressed("select_airlines") => selected_airlines = AirlineOptions
            /\ pressed("deselect_airlines") => selected_airlines = {}
            /\ FilterOutput = apply_mask(FilterInput, FilterColumn, selected_airports,
                                         selected_airlines, date_range))
    /\ [][(variant \in {"app", "app3"} /\ pc = "sidebar" /\ pc' = "kpis"
             /\ pressed("none")) =>
               /\ StoredAirports # None => selected_airports' = StoredAirports[1]
               /\ StoredAirlines # None => selected_airlines' = StoredAirlines[1]]_vars

-----------------------------------------------------------------------------
(* Properties of the cumulative-delay summary *)

\* the positions of the records of cum_data for an airport and a threshold
Entries(a, t) ==
    {n \in 1..Len(cum_data[1]) :
        cum_data[1][n].Airport = a /\ cum_data[1][n].Delay_Threshold = t}

\* C22: the cumulative-delay summary has exactly one record, with a numeric
\* Percentage, for every airport of the filtered subset and every threshold
\* in {0, 5, ..., 90}: also for a threshold that no flight of the airport
\* reaches, where the Percentage is 0.
C22_CumDataKeyedCompletely ==
    cum_data # None =>
        \A a \in unique(filtered_df[1], "origin") :
        \A i \in 1..Len(delay_threshold) :
            LET t == delay_threshold[i]
                own == group(filtered_df[1], "origin", a)
            IN  /\ Cardinality(Entries(a, t)) = 1
                /\ \A n \in Entries(a, t) :
                       /\ notna(cum_data[1][n].Percentage)
                       /\ (\A r \in Range(own) : ~ge(r.departure_delay, t)) =>
                              cum_data[1][n].Percentage = Number(0)

\* x <= y for two percentages, both numbers
pct_le(x, y) == notna(x) /\ notna(y) /\ x[1].num * y[1].den <= y[1].num * x[1].den

\* the sum of the Percentage values of a sequence of records, as a fraction
RECURSIVE SumPercentage(_)
SumPercentage(q) ==
    IF q = <<>> THEN Frac(0, 1)
    ELSE LET x == Head(q).Percentage[1]
             y == SumPercentage(Tail(q))
         IN  Frac(x.num * y.den + y.num * x.den, x.den * y.den)

\* the records of cum_data for one threshold
AtThreshold(t) == SelectSeq(cum_data[1], LAMBDA e : e.Delay_Threshold = t)

\* C27: in the cumulative-delay summary every Percentage lies between 0 and
\* 100, the Percentage of an airport does not grow as the threshold grows
\* from 0 to 90, and at each threshold the Percentages of all airports sum
\* to at most 100.
C27_CumDataBounds ==
    cum_data # None =>
        /\ \A e \in Range(cum_data[1]) :
               pct_le(Number(0), e.Percentage) /\ pct_le(e.Percentage, Number(100))
        /\ \A e1, e2 \in Range(cum_data[1]) :
               (e1.Airport = e2.Airport /\ e1.Delay_Threshold <= e2.Delay_Threshold) =>
                   pct_le(e2.Percentage, e1.Percentage)
        /\ \A i \in 1..Len(delay_threshold) :
               pct_le(Some(SumPercentage(AtThreshold(delay_threshold[i]))), Number(100))

\* C27 witness: a summary with two airports at threshold 0, each under 100,
\* and an airport whose Percentage at a higher threshold is lower
C27_Witness ==
    /\ cum_data # None
    /\ Len(AtThreshold(0)) = 2
    /\ \A e \in Range(AtThreshold(0)) : e.Percentage # Number(100)
    /\ \E e1, e2 \in Range(cum_data[1]) :
           /\ e1.Airport = e2.Airport /\ e1.Delay_Threshold < e2.Delay_Threshold
           /\ e1.Percentage # e2.Percentage

-----------------------------------------------------------------------------
(* Properties of time_of_day *)

\* the category whose label names the hour h
ExpectedTimeOfDay(h) ==
    IF h <= 5 THEN "Night (12am-6am)"
    ELSE IF h <= 11 THEN "Morning (6am-12pm)"
    ELSE IF h <= 17 THEN "Afternoon (12pm-6pm)"
    ELSE "Evening (6pm-12am)"

\* C28: time_of_day gives every scheduled hour 0..23 the one category whose
\* label names it: 0-5 Night (12am-6am), 6-11 Morning (6am-12pm), 12-17
\* Afternoon (12pm-6pm), 18-23 Evening (6pm-12am).
C28_TimeOfDayMatchesLabel ==
    (variant = "lib" /\ df # None) =>
        \A r \in Range(df[1]) :
            r.hour \in 0..23 => r.time_of_day = Some(ExpectedTimeOfDay(r.hour))

-----------------------------------------------------------------------------
(* Properties of the date input *)

\* C23: when the date input of app.py or app3.py holds one date only (the
\* user is still picking the range), the pass raises nothing and the filter
\* keeps exactly the rows dated on or after that date that pass the airport
\* and the airline predicates.
C23_SingleDateHandled ==
    (variant \in {"app", "app3"} /\ Len(date_range) = 1) =>
        /\ raised = None
        /\ Filtered
        /\ FilterOutput = SelectSeq(FilterInput, LAMBDA r :
                              InSelection(r) /\ r.date >= date_range[1])

-----------------------------------------------------------------------------
(* Properties of app3.py's stored selections *)

\* the sidebar of app3.py has run in this pass, to its end or to an exception
App3SidebarRan ==
    /\ variant = "app3"
    /\ \/ pc \in {"kpis", "charts", "done"} /\ filtered_df # None
       \/ raised \in {Some("StreamlitAPIException"), Some("TypeError")}

\* the default= that the airline multiselect was given in this pass: that of
\* the element it has built, or, when the call has raised and line 281 has
\* not run, the stored selection itself
AirlineDefault ==
    IF multiselect_raises(AirlineOptions, StoredAirlines[1])
    THEN StoredAirlines[1]
    ELSE widgets["airline_multiselect"][1].default

\* C24: in app3.py, whatever delay-type switches, button presses and edits
\* came before, the stored selection handed to each multiselect as its
\* default is a subset of the options of the active delay type.
C24_DefaultsWithinOptions ==
    App3SidebarRan =>
        /\ widgets[airport_widget_key(delay_type)][1].default \subseteq AirportOptions
        /\ AirlineDefault \subseteq AirlineOptions

\* C25: app3.py keeps the airport selection per delay type: no step taken
\* while one delay type is active changes the stored airport selection of the
\* other, and the run that switches back to a delay type selects its stored
\* airports again.
C25_AirportSelectionPerDelayType ==
    [][variant = "app3" =>
         /\ session_state'[session_key(other_delay_type(delay_type))] =
                session_state[session_key(other_delay_type(delay_type))]
         /\ (pc = "sidebar" /\ pc' = "kpis" /\ pressed("delay_type")
                /\ StoredAirports # None) =>
                selected_airports' = StoredAirports[1]]_vars

\* C25 witness: the user has cleared the departure airports, switched to the
\* arrival delays and back, and finds no departure airport selected while
\* the arrival airports are all still stored
C25_Witness ==
    /\ variant = "app3" /\ pc = "kpis" /\ pressed("delay_type")
    /\ delay_type = "Departure Delays"
    /\ selected_airports = {} /\ AirportOptions # {}
    /\ session_state[session_key("Arrival Delays")] # None
    /\ session_state[session_key("Arrival Delays")][1] # {}

-----------------------------------------------------------------------------
(* Properties of app.py's airport filter *)

\* C26: in app.py every row of the filtered subset that the KPIs and charts
\* read has its origin in {EWR, JFK, LGA, SWF}, whatever the user has done in
\* the sidebar before, although the enriched table has other origins too.
C26_FilteredOriginsNyNj ==
    (variant = "app" /\ Filtered) =>
        /\ \A r \in Range(filtered_df_all[1]) : r.origin \in ny_nj_airports
        /\ \A r \in Range(filtered_df[1]) : r.origin \in ny_nj_airports

\* C26 witness: after an interaction with the sidebar, app.py has filtered an
\* enriched table with a flight out of Boston down to a non-empty subset
C26_Witness ==
    /\ variant = "app" /\ Filtered /\ passes > 1
    /\ \E r \in Range(df[1]) : r.origin \notin ny_nj_airports
    /\ filtered_df[1] # <<>>

-----------------------------------------------------------------------------
(* Properties of the CO2 projection *)

\* keeling.py has computed its projection
Projected == variant = "keeling" /\ pc \in {"annotate", "done", "crashed"}
                /\ kpis # None /\ "projection_values" \in DOMAIN kpis[1]

\* C29: the projection is linear from the last annual value: the projected
\* years are the years after last_year up to 2050, the value of year y is
\* current_co2 + 2.5 * (y - last_year), and the "Projected 2050" value is
\* defined for every data set, also when its last year is 2050 or later.
C29_ProjectionLinearAndDefined ==
    Projected =>
        LET k == kpis[1]
        IN  /\ Len(k.projection_values) = Len(k.projection_years)
            /\ \A y \in (k.last_year + 1)..projection_end :
                   \E i \in 1..Len(k.projection_years) :
                       /\ k.projection_years[i] = y
                       /\ k.projection_values[i] =
                              Frac(k.current_co2.num
                                     + recent_rate * (y - k.last_year) * k.current_co2.den,
                                   k.current_co2.den)
            /\ k.projection_years # <<>> =>
                   k.projection_years[Len(k.projection_years)] = projection_end
            /\ raised = None
            /\ pc = "done" => "projected_2050" \in DOMAIN k

====
